---- MODULE Spec2Model ----
(***************************************************************************)
(* Extraction orchestration of the electoral-roll ingest service           *)
(* (app/core/extraction_service.py): the segment planner, the run and      *)
(* segment state machine with its duplicate-document guard, the retry      *)
(* entry points and the merge step.                                        *)
(*                                                                         *)
(* Scheduling.  The extraction of a document runs as an async background   *)
(* task and the retry endpoints are async handlers, so all of them are     *)
(* coroutines of one event loop.  A coroutine is suspended only at         *)
(* `await asyncio.to_thread(extract_segment, ...)`, at `asyncio.gather`    *)
(* and at a contended semaphore; everything between two suspension points  *)
(* (all the short database sessions included) is one atomic step of the    *)
(* model.                                                                  *)
(***************************************************************************)
EXTENDS Integers, Sequences, FiniteSets, TLC

(***************************************************************************)
(* JSON scalars as the service receives them.  A value is a tagged record: *)
(*   "null"       JSON null / missing key                                  *)
(*   "int"        a JSON integer v                                         *)
(*   "str"        a string of decimal digits spelling v, possibly padded   *)
(*                with white space (" 25 ")                                *)
(*   "str_comma"  a digit string with thousands separators ("1,025")       *)
(*   "str_text"   a string that is not a number ("12A", "")                *)
(***************************************************************************)
JNull == [k |-> "null", v |-> 0]
JInt(n) == [k |-> "int", v |-> n]
JStr(n) == [k |-> "str", v |-> n]
JStrComma(n) == [k |-> "str_comma", v |-> n]
JStrPadded(n) == [k |-> "str_padded", v |-> n]
JStrText == [k |-> "str_text", v |-> 0]
\* A JSON string that is kept as text (the header's state name).
JText(s) == [k |-> "text", s |-> s]

\* Python truthiness of a JSON scalar: None, "" and 0 are falsy.
truthy(value) ==
    CASE value.k = "null" -> FALSE
      [] value.k = "text" -> value.s # ""
      [] value.k = "int" -> value.v # 0
      [] OTHER -> TRUE

\* ExtractionService._to_int: None -> None, int -> itself, a string is
\* stripped, "," and " " are removed and int() is applied; anything that
\* does not parse gives None.
to_int(value) ==
    CASE value.k = "null" -> JNull
      [] value.k = "int" -> JInt(value.v)
      [] value.k = "str" -> JInt(value.v)
      [] value.k = "str_comma" -> JInt(value.v)
      [] value.k = "str_padded" -> JInt(value.v)
      [] OTHER -> JNull

Min(a, b) == IF a <= b THEN a ELSE b

(***************************************************************************)
(* Segment planner                                                         *)
(***************************************************************************)
HEADER == "HEADER"
LIST_CHUNK == "LIST_CHUNK"

SegmentSpec(type, page_start, page_end) ==
    [segment_type |-> type, page_start |-> page_start, page_end |-> page_end]

\* A chunk that ends one page too far.
chunk_end_one_more(current, max_pages_per_call, end_page) ==
    Min(current + max_pages_per_call, end_page)

\* One iteration of the while loop of _build_segments: the last page of the
\* chunk that starts at page `current`.
chunk_end(current, max_pages_per_call, end_page) ==
    Min(current + max_pages_per_call - 1, end_page)

\* The while loop of _build_segments, from page `current` on.
RECURSIVE list_chunks(_, _, _)
list_chunks(current, end_page, max_pages_per_call) ==
    IF current <= end_page
    THEN LET ce == chunk_end(current, max_pages_per_call, end_page)
         IN  <<SegmentSpec(LIST_CHUNK, current, ce)>>
                 \o list_chunks(ce + 1, end_page, max_pages_per_call)
    ELSE <<>>

\* `if page_count and page_count > 1`: the page count is present, not 0 and
\* above 1.
has_list_pages(page_count) ==
    page_count.k = "int" /\ page_count.v # 0 /\ page_count.v > 1

\* A planner that appends the HEADER segment only inside the page-count
\* branch.
build_segments_header_in_branch(page_count, max_pages_per_call) ==
    IF has_list_pages(page_count)
    THEN <<SegmentSpec(HEADER, 1, 1)>>
             \o list_chunks(2, page_count.v, max_pages_per_call)
    ELSE <<>>

\* ExtractionService._build_segments(page_count, max_pages_per_call).
build_segments(page_count, max_pages_per_call) ==
    <<SegmentSpec(HEADER, 1, 1)>>
        \o (IF has_list_pages(page_count)
            THEN list_chunks(2, page_count.v, max_pages_per_call)
            ELSE <<>>)

(***************************************************************************)
(* Run and segment state machine                                           *)
(***************************************************************************)
VARIABLES
    document,   \* documents: document id -> page_count of the uploaded PDF
    run,        \* extraction_runs: document id -> run row (one run per upload)
    seg,        \* extraction_segments: document id -> its run's segments
    header,     \* document_header: document id -> header row
    pc,         \* position of each document's background extraction task
    lt,         \* position of each list task created by asyncio.gather
    op,         \* the retry requests (handlers of the two retry endpoints)
    plan_in,    \* planner check: the arguments of _build_segments
    plan_out,   \* planner check: what _build_segments returned
    voters,     \* voters: document id -> the document's Voter rows
    document_sections, \* document id -> its section rows, insertion order
    answers,    \* what the external service answers a list call with
    fn_in,      \* function checks: the arguments of the function applied
    fn_out,     \* function checks: what the function returned
    api_key_settings \* api_key_settings: provider -> its row

vars == <<document, run, seg, header, pc, lt, op, plan_in, plan_out,
          voters, document_sections, answers,
          fn_in, fn_out, api_key_settings>>

\* The documents that are uploaded, numbered in upload order, and the page
\* count of each (create_document rejects a PDF without pages, so a stored
\* page count is at least 1).  PagesWide is the page count of the one
\* document of SpecWide, which has more list chunks than the semaphore has
\* permits.
Docs == {1, 2}
PagesDoc == 8
PagesWide == 26

\* settings.gemini_max_pages_per_call (default of GEMINI_MAX_PAGES_PER_CALL).
gemini_max_pages_per_call == 8

\* The number of retry requests that are made.
MaxRetryRequests == 2
Ops == 1..MaxRetryRequests

\* ExtractionRunStatus and SegmentStatus.
PENDING == "PENDING"
RUNNING == "RUNNING"
COMPLETED == "COMPLETED"
FAILED == "FAILED"
PARTIAL == "PARTIAL"
SKIPPED == "SKIPPED"
DONE == "DONE"
\* No row in extraction_runs for the document yet.
NO_RUN == "NO_RUN"

(* error_message of a run / reason of a skip marker *)
NoMsg == [k |-> "none"]
RunWasSkippedMsg == [k |-> "run_was_skipped"]
\* f"Document already processed: state=..., constituency=..., part_number=..."
DuplicateMsg(state, ac_number_english, part_number) ==
    [k |-> "document_already_processed", state |-> state,
     constituency |-> ac_number_english, part_number |-> part_number]
\* f"All segments failed. Failed segments: {failed_segment_count}"
AllFailedMsg(n) == [k |-> "all_segments_failed", failed |-> n]

(* JSON payloads *)
NoHeaderJson == [present |-> FALSE]
HeaderJson(state, ac_number_english, part_number) ==
    [present |-> TRUE, state |-> state,
     ac_number_english |-> ac_number_english, part_number |-> part_number]
NoListJson == [present |-> FALSE]
ListJson(rows) == [present |-> TRUE, rows |-> rows]
RawNull == [k |-> "null"]
RawError == [k |-> "error"]
SkipMarker(reason) == [k |-> "skipped", reason |-> reason]
Parsed(header_json, list_json) ==
    [k |-> "parsed", header |-> header_json, list |-> list_json,
     section_start_positions |-> <<>>]
\* A response for a LIST_CHUNK segment: the keys "list" and
\* "section_start_positions".
Answer(rows, section_start_positions) ==
    [rows |-> rows, section_start_positions |-> section_start_positions]
ParsedList(answer) ==
    [k |-> "parsed", header |-> NoHeaderJson, list |-> ListJson(answer.rows),
     section_start_positions |-> answer.section_start_positions]
\* A list response without rows and without section starts.
EmptyAnswer == Answer(<<>>, <<>>)
\* extract_segment raised (network failure, timeout, empty or malformed JSON).
Exc == [k |-> "exception"]

\* What the external service answers for a HEADER segment: the same triple
\* spelled with JSON numbers and with digit strings, a header with an empty
\* state name, or a response without a header object.
HeaderJsons ==
    { HeaderJson(JText("KA"), JInt(7), JInt(1)),
      HeaderJson(JText("KA"), JStr(7), JStr(1)),
      HeaderJson(JText(""), JInt(7), JInt(1)) }
HeaderResponses == {Parsed(h, NoListJson) : h \in HeaderJsons \cup {NoHeaderJson}}
ListResponses == {ParsedList(answer) : answer \in answers}
Responses(segment_type) ==
    IF segment_type = HEADER THEN HeaderResponses ELSE ListResponses

NoRunRow == [status |-> NO_RUN, error_message |-> NoMsg]
NoHeaderRow == [present |-> FALSE]

\* The three tables as one value, so that the helpers below can be chained
\* the way the code chains its short sessions.
DB == [run |-> run, seg |-> seg, header |-> header, voters |-> voters,
       sections |-> document_sections]
SetDB(db) ==
    /\ run' = db.run
    /\ seg' = db.seg
    /\ header' = db.header
    /\ voters' = db.voters
    /\ document_sections' = db.sections

SegIdx(db, d) == DOMAIN db.seg[d]
ListIdx(db, d) == {i \in SegIdx(db, d) : db.seg[d][i].segment_type = LIST_CHUNK}
Unfinished(status) == status \in {PENDING, RUNNING}

SetSegment(db, d, i, status, raw) ==
    [db EXCEPT !.seg[d][i].status = status, !.seg[d][i].raw_response_json = raw]

(***************************************************************************)
(* Duplicate-document guard                                                *)
(***************************************************************************)
\* A comparison that takes a digit string for a different value.
sql_eq_int_typed(column, param) == column = param

\* The SQL comparison `column == param` of an integer column with the raw
\* JSON value of the header: NULL equals nothing, a digit string is read as
\* the integer it spells.
sql_eq_int(column, param) ==
    column.k = "int" /\ param.k \in {"int", "str"} /\ column.v = param.v

\* The SQL comparison of the state column with the raw state.
sql_eq_text(column, param) ==
    column.k = "text" /\ param.k = "text" /\ column.s = param.s

\* `state and part_number is not None and ac_number_english is not None`
has_triple(header_json) ==
    /\ truthy(header_json.state)
    /\ header_json.part_number.k # "null"
    /\ header_json.ac_number_english.k # "null"

\* The filter on (state, constituency number, part number) of the two
\* DocumentHeader queries.
same_triple(row, header_json) ==
    /\ row.present
    /\ sql_eq_text(row.state, header_json.state)
    /\ sql_eq_int(row.assembly_constituency_number_english,
                  header_json.ac_number_english)
    /\ sql_eq_int(row.part_number, header_json.part_number)

\* ExtractionService._check_duplicate_document: (is_duplicate, error_message).
check_duplicate_document(db, header_json, document_id) ==
    IF ~has_triple(header_json)
    THEN [is_duplicate |-> FALSE, error_msg |-> NoMsg]
    ELSE IF \E o \in Docs \ {document_id} : same_triple(db.header[o], header_json)
         THEN [is_duplicate |-> TRUE,
               error_msg |-> DuplicateMsg(header_json.state,
                                          header_json.ac_number_english,
                                          header_json.part_number)]
         ELSE [is_duplicate |-> FALSE, error_msg |-> NoMsg]

\* A guard that leaves the segments of the runs it skips as they are.
remaining_segments_none == {}

\* The statuses of the segments that _skip_duplicate_runs marks SKIPPED.
remaining_segments_statuses == {PENDING, RUNNING}

\* A guard that also skips the runs that ended PARTIAL or FAILED.
runs_to_skip_statuses_with_ended == {PENDING, RUNNING, PARTIAL, FAILED}

\* The statuses of the runs that _skip_duplicate_runs selects.
runs_to_skip_statuses == {PENDING, RUNNING}

\* ExtractionService._skip_duplicate_runs.
skip_duplicate_runs(db, header_json, current_document_id, error_msg) ==
    IF ~has_triple(header_json) THEN db
    ELSE LET all_doc_ids ==
                 {o \in Docs : same_triple(db.header[o], header_json)}
                     \cup {current_document_id}
             skipped(o) == o \in all_doc_ids
                           /\ db.run[o].status \in runs_to_skip_statuses
         IN  [db EXCEPT
                !.run = [o \in Docs |->
                    IF skipped(o)
                    THEN [db.run[o] EXCEPT !.status = SKIPPED,
                                           !.error_message = error_msg]
                    ELSE db.run[o]],
                !.seg = [o \in Docs |->
                    IF skipped(o)
                    THEN [i \in DOMAIN db.seg[o] |->
                            IF db.seg[o][i].status \in remaining_segments_statuses
                            THEN [db.seg[o][i] EXCEPT
                                    !.status = SKIPPED,
                                    !.raw_response_json = SkipMarker(error_msg)]
                            ELSE db.seg[o][i]]
                    ELSE db.seg[o]]]

\* An upsert that writes nothing.
upsert_document_header_nothing(db, document_id, header_json) == db

\* ExtractionService._upsert_document_header.
upsert_document_header(db, document_id, header_json) ==
    [db EXCEPT !.header[document_id] =
        [present |-> TRUE,
         state |-> header_json.state,
         part_number |-> to_int(header_json.part_number),
         assembly_constituency_number_english |->
             to_int(header_json.ac_number_english)]]

(***************************************************************************)
(* Run status aggregation                                                  *)
(***************************************************************************)
\* An aggregation that recomputes a SKIPPED run.
sticky_statuses_without_skipped == {COMPLETED}

\* The statuses of a run that _update_extraction_run_status never touches.
sticky_statuses == {SKIPPED, COMPLETED}

\* An aggregation that asks for no list result before COMPLETED.
final_status_without_list(run_row, segments) ==
    LET idx == DOMAIN segments
        any_failed == \E i \in idx : segments[i].status = FAILED
        all_done == \A i \in idx : segments[i].status = DONE
        any_done == \E i \in idx : segments[i].status = DONE
    IN  IF all_done THEN [run_row EXCEPT !.status = COMPLETED]
        ELSE IF any_done THEN [run_row EXCEPT !.status = PARTIAL]
        ELSE IF any_failed THEN [run_row EXCEPT !.status = FAILED]
        ELSE run_row

\* The final status for a run whose segments are all terminal; the run's
\* current record when no branch applies.
final_status(run_row, segments) ==
    LET idx == DOMAIN segments
        any_failed == \E i \in idx : segments[i].status = FAILED
        failed_segment_count ==
            Cardinality({i \in idx : segments[i].status = FAILED})
        all_done == \A i \in idx : segments[i].status = DONE
        any_done == \E i \in idx : segments[i].status = DONE
        has_header == \E i \in idx : /\ segments[i].segment_type = HEADER
                                     /\ segments[i].status = DONE
        has_list_data == \E i \in idx : /\ segments[i].segment_type = LIST_CHUNK
                                        /\ segments[i].status = DONE
    IN  IF all_done /\ has_header /\ has_list_data /\ ~any_failed
        THEN [run_row EXCEPT !.status = COMPLETED]
        ELSE IF any_done /\ (has_header \/ has_list_data)
        THEN [run_row EXCEPT !.status = PARTIAL]
        ELSE IF any_failed /\ ~any_done
        THEN [run_row EXCEPT !.status = FAILED,
                             !.error_message = AllFailedMsg(failed_segment_count)]
        ELSE run_row

\* ExtractionService._update_extraction_run_status.
update_extraction_run_status(db, d) ==
    IF db.run[d].status \in sticky_statuses THEN db
    ELSE IF \E i \in DOMAIN db.seg[d] : Unfinished(db.seg[d][i].status)
    THEN [db EXCEPT !.run[d].status = RUNNING]
    ELSE [db EXCEPT !.run[d] = final_status(db.run[d], db.seg[d])]

\* The orders in which the relationship run.segments, which has no
\* order_by, can deliver the rows S.
Orders(S) ==
    {q \in [1..Cardinality(S) -> S] :
         \A j, k \in 1..Cardinality(S) : j # k => q[j] # q[k]}

(***************************************************************************)
(* Reconciler: _deduplicate_and_validate_voters                            *)
(***************************************************************************)
(* voter_name of a row: the key is missing, is null, or is an object with  *)
(* the keys english and local.                                             *)
NameMissing == [k |-> "missing"]
NameNull == [k |-> "null"]
Name(english, local) == [k |-> "object", english |-> english, local |-> local]

\* A row object of a list payload (a missing key reads as null).
Row(serial_number, voter_name, house_number, gender, age, photo_id) ==
    [serial_number |-> serial_number, voter_name |-> voter_name,
     house_number |-> house_number, gender |-> gender, age |-> age,
     photo_id |-> photo_id]

\* What a function returns: a value, or an exception.
Returned(value) == [raised |-> FALSE, value |-> value]
Raised == [raised |-> TRUE, value |-> <<>>]

\* `row.get("voter_name", {}).get("english") or ....get("local")`: a null
\* voter_name has no get.
has_voter_name(row) ==
    CASE row.voter_name.k = "missing" -> Returned(FALSE)
      [] row.voter_name.k = "null" -> Raised
      [] OTHER -> Returned(truthy(row.voter_name.english)
                           \/ truthy(row.voter_name.local))

Bit(b) == IF b THEN 1 ELSE 0

\* The completeness score of a row of a duplicate group.
score(row) ==
    LET name == has_voter_name(row)
    IN  IF name.raised THEN Raised
        ELSE Returned(Bit(name.value) + Bit(truthy(row.house_number))
                      + Bit(truthy(row.gender)) + Bit(truthy(row.age))
                      + Bit(truthy(row.photo_id)))

\* A comparison that lets a later row of equal score win.
better_or_equal(row_score, best_score) == row_score >= best_score

\* `if score > best_score`
better(row_score, best_score) == row_score > best_score

\* The loop over the rows of one duplicate group, from row k on: the index
\* of the best row, 0 when a score raised.
RECURSIVE best_row(_, _, _, _)
best_row(row_list, k, best, best_score) ==
    IF k > Len(row_list) THEN best
    ELSE LET sc == score(row_list[k])
         IN  IF sc.raised THEN 0
             ELSE IF better(sc.value, best_score)
             THEN best_row(row_list, k + 1, k, sc.value)
             ELSE best_row(row_list, k + 1, best, best_score)

\* The key rows are grouped by.
serial_key_raw(row) == row.serial_number

\* `self._to_int(row.get("serial_number"))`
serial_key(row) == to_int(row.serial_number)

has_serial(row) == serial_key(row).k = "int"

\* Rows without a serial number, last first.
rows_without_serial_reversed(all_rows) ==
    LET rows == SelectSeq(all_rows, LAMBDA r : ~has_serial(r))
    IN  [k \in 1..Len(rows) |-> rows[Len(rows) + 1 - k]]

\* The rows whose serial number is None, in input order.
rows_without_serial(all_rows) == SelectSeq(all_rows, LAMBDA r : ~has_serial(r))

\* serial_to_rows[serial_num]: the rows of one serial number, in input order.
serial_to_rows(all_rows, serial_num) ==
    SelectSeq(all_rows, LAMBDA r : has_serial(r) /\ serial_key(r).v = serial_num)

\* The serial numbers in descending order.
RECURSIVE sorted_serials_descending(_)
sorted_serials_descending(S) ==
    IF S = {} THEN <<>>
    ELSE LET m == CHOOSE x \in S : \A y \in S : x >= y
         IN  <<m>> \o sorted_serials_descending(S \ {m})

\* sorted(deduplicated_rows.keys())
RECURSIVE sorted_serials(_)
sorted_serials(S) ==
    IF S = {} THEN <<>>
    ELSE LET m == CHOOSE x \in S : \A y \in S : x <= y
         IN  <<m>> \o sorted_serials(S \ {m})

\* ExtractionService._deduplicate_and_validate_voters.  The sampling of
\* step 2 and the gap detection of step 5 only write log lines.
deduplicate_and_validate_voters(all_rows) ==
    IF all_rows = <<>> THEN Returned(<<>>)
    ELSE LET valid == {k \in 1..Len(all_rows) : has_serial(all_rows[k])}
             serials == {serial_key(all_rows[k]).v : k \in valid}
             group(sn) == serial_to_rows(all_rows, sn)
             best(sn) == IF Len(group(sn)) = 1 THEN 1
                         ELSE best_row(group(sn), 1, 0, -1)
             keys == sorted_serials(serials)
         IN  IF valid = {} THEN Returned(rows_without_serial(all_rows))
             ELSE IF \E sn \in serials : best(sn) = 0 THEN Raised
             ELSE Returned([k \in 1..Len(keys) |-> group(keys[k])[best(keys[k])]]
                               \o rows_without_serial(all_rows))

\* The Voter row built from a row object.
to_voter(row) ==
    [serial_number |-> to_int(row.serial_number),
     age |-> to_int(row.age),
     raw_row_json |-> row]

\* Voter rows that are added to the stored ones.
append_voters(stored, fresh) == stored \o fresh

\* Delete the document's Voter rows, then insert the fresh ones.
replace_voters(stored, fresh) == fresh

(***************************************************************************)
(* Segment response processing and merge                                   *)
(***************************************************************************)
\* `run.error_message or "Run was skipped"`
skip_reason(run_row) ==
    IF run_row.error_message = NoMsg THEN RunWasSkippedMsg
    ELSE run_row.error_message

\* The first commit of _process_segment_response: DONE with the payloads.
persist_segment_results(db, d, i, parsed) ==
    [db EXCEPT !.seg[d][i] =
        [@ EXCEPT !.status = DONE,
                  !.raw_response_json = parsed,
                  !.parsed_header_json =
                      IF db.seg[d][i].segment_type = HEADER
                      THEN parsed.header ELSE @,
                  !.parsed_list_json =
                      IF parsed.list.present THEN parsed.list ELSE @]]

\* A check that lets the response of a SKIPPED run through.
run_is_skipped_ignored(run_row) == FALSE

\* `if run and run.status == ExtractionRunStatus.SKIPPED`
run_is_skipped(run_row) == run_row.status = SKIPPED

\* ExtractionService._process_segment_response.
process_segment_response(db, d, i, parsed) ==
    IF run_is_skipped(db.run[d])
    THEN SetSegment(db, d, i, SKIPPED, SkipMarker(skip_reason(db.run[d])))
    ELSE LET db1 == persist_segment_results(db, d, i, parsed)
             header_json == db1.seg[d][i].parsed_header_json
         IN  IF db1.seg[d][i].segment_type = HEADER /\ header_json.present
             THEN LET dup == check_duplicate_document(db1, header_json, d)
                  IN  IF dup.is_duplicate
                      THEN SetSegment(
                               skip_duplicate_runs(db1, header_json, d, dup.error_msg),
                               d, i, SKIPPED, SkipMarker(dup.error_msg))
                      ELSE update_extraction_run_status(
                               upsert_document_header(db1, d, header_json), d)
             ELSE update_extraction_run_status(db1, d)

\* The orders in which `run.segments` can deliver the list segments.
SegmentOrders(db, d) == Orders(ListIdx(db, d))

\* The rows of the DONE list segments, concatenated in the order `ord` in
\* which run.segments delivers the segments.
RECURSIVE collect_rows(_, _, _)
collect_rows(db, d, ord) ==
    IF ord = <<>> THEN <<>>
    ELSE LET s == db.seg[d][Head(ord)]
             rows == IF /\ s.segment_type = LIST_CHUNK
                        /\ s.status = DONE
                        /\ s.parsed_list_json.present
                     THEN s.parsed_list_json.rows ELSE <<>>
         IN  rows \o collect_rows(db, d, Tail(ord))

\* A merge that goes on for a SKIPPED run.
merge_skips_never(run_row) == FALSE

\* `if run.status == ExtractionRunStatus.SKIPPED: return`
merge_skips(run_row) == run_row.status = SKIPPED

\* ExtractionService._merge_segments_and_persist: nothing for a SKIPPED run;
\* else the Voter rows are replaced when the DONE list segments hold rows,
\* and the final status update follows.  When the Reconciler raises nothing
\* is committed.
merge_segments_and_persist(db, d, ord) ==
    IF merge_skips(db.run[d]) THEN db
    ELSE LET all_rows == collect_rows(db, d, ord)
             validated_rows == deduplicate_and_validate_voters(all_rows)
             fresh == [k \in 1..Len(validated_rows.value) |->
                          to_voter(validated_rows.value[k])]
         IN  IF all_rows = <<>> THEN update_extraction_run_status(db, d)
             ELSE IF validated_rows.raised THEN db
             ELSE update_extraction_run_status(
                      [db EXCEPT !.voters[d] = replace_voters(@, fresh)], d)

\* The except branch of process_segment / process_single_segment.
mark_failed(db, d, i) == SetSegment(db, d, i, FAILED, RawError)

(***************************************************************************)
(* Section occurrences: _process_section_start_positions and               *)
(* _update_section_start_serial_numbers                                    *)
(***************************************************************************)
\* An entry of "section_start_positions" in a list response.
Position(section_number, start_serial_number) ==
    [section_number |-> section_number,
     start_serial_number |-> start_serial_number]

\* A row of document_sections.
Section(section_id, start_serial_number) ==
    [section_id |-> section_id, start_serial_number |-> start_serial_number]

\* isinstance(value, int)
is_int(value) == value.k = "int"

\* An existence check that also sees the occurrences added to the session
\* and not flushed yet.
occurrence_exists_with_pending(stored, pending, row) ==
    \E k \in DOMAIN (stored \o pending) : (stored \o pending)[k] = row

\* `existing = db.query(DocumentSection).filter(...).first()`: the session
\* is made with autoflush=False, so the query reads the table and not the
\* occurrences added to the session earlier in the loop.
occurrence_exists(stored, pending, row) ==
    \E k \in DOMAIN stored : stored[k] = row

\* The loop over the positions: the occurrences added to the session.
RECURSIVE new_sections(_, _, _)
new_sections(stored, pending, positions) ==
    IF positions = <<>> THEN pending
    ELSE LET pos == Head(positions)
             row == Section(pos.section_number.v, pos.start_serial_number)
         IN  IF ~is_int(pos.section_number) \/ ~is_int(pos.start_serial_number)
             THEN new_sections(stored, pending, Tail(positions))
             ELSE IF occurrence_exists(stored, pending, row)
             THEN new_sections(stored, pending, Tail(positions))
             ELSE new_sections(stored, Append(pending, row), Tail(positions))

\* UniqueConstraint uq_document_section_occurrence.
unique_occurrences(rows) ==
    \A j, k \in DOMAIN rows : j # k => rows[j] # rows[k]

\* ExtractionService._update_section_start_serial_numbers: the new
\* occurrences are inserted by the one commit at the end, which raises
\* IntegrityError (and inserts nothing) when they break the constraint.
update_section_start_serial_numbers(db, d, positions) ==
    LET rows == db.sections[d] \o new_sections(db.sections[d], <<>>, positions)
    IN  IF unique_occurrences(rows)
        THEN Returned([db EXCEPT !.sections[d] = rows])
        ELSE Raised

\* The "section_start_positions" of the DONE list segments, concatenated in
\* the order `ord` in which the query delivers the segments.
RECURSIVE collect_section_starts(_, _, _)
collect_section_starts(db, d, ord) ==
    IF ord = <<>> THEN <<>>
    ELSE LET s == db.seg[d][Head(ord)]
             section_starts == IF /\ s.segment_type = LIST_CHUNK
                                  /\ s.status = DONE
                               THEN s.raw_response_json.section_start_positions
                               ELSE <<>>
         IN  section_starts \o collect_section_starts(db, d, Tail(ord))

\* ExtractionService._process_section_start_positions.
process_section_start_positions(db, d, ord) ==
    LET all_section_start_positions == collect_section_starts(db, d, ord)
    IN  IF all_section_start_positions = <<>> THEN Returned(db)
        ELSE update_section_start_serial_numbers(db, d,
                                                 all_section_start_positions)

\* The orders in which the query for the DONE list segments, which has no
\* order_by, can deliver them.  When no answer of the external service
\* carries a section start every order gives the same result, and one is
\* taken.
SectionOrders(db, d) ==
    IF \A answer \in answers : answer.section_start_positions = <<>>
    THEN {CHOOSE ord \in SegmentOrders(db, d) : TRUE}
    ELSE SegmentOrders(db, d)

\* The tail of the initial run and of a successful retry: section
\* occurrences (when `with_sections`), final status update, merge.  An
\* error raised by the section step leaves the rest undone.
finish_run(db, d, with_sections, sord, ord) ==
    LET s == IF with_sections THEN process_section_start_positions(db, d, sord)
             ELSE Returned(db)
    IN  IF s.raised THEN [db |-> db, raised |-> TRUE]
        ELSE [db |-> merge_segments_and_persist(
                         update_extraction_run_status(s.value, d), d, ord),
              raised |-> FALSE]

(***************************************************************************)
(* Initial run: run_extraction_for_document and                            *)
(* _run_extraction_segments_async                                          *)
(***************************************************************************)
\* A semaphore with one permit more.
list_semaphore_four == 3 + 1

\* asyncio.Semaphore(3) of _run_extraction_segments_async.
list_semaphore == 3

NewSegment(spec) ==
    [segment_type |-> spec.segment_type,
     page_start |-> spec.page_start,
     page_end |-> spec.page_end,
     status |-> PENDING,
     raw_response_json |-> RawNull,
     parsed_header_json |-> NoHeaderJson,
     parsed_list_json |-> NoListJson]

\* Steps 3 and 4 of run_extraction_for_document: the run row and one
\* segment row per planned segment, all PENDING.
create_run_and_segments(db, d) ==
    LET segments_spec == build_segments(document[d].page_count,
                                        gemini_max_pages_per_call)
    IN  [db EXCEPT !.run[d] = [status |-> PENDING, error_message |-> NoMsg],
                   !.seg[d] = [i \in DOMAIN segments_spec |->
                                   NewSegment(segments_spec[i])]]

\* process_segment up to the external call: a SKIPPED run marks the segment
\* SKIPPED and nothing is dispatched; else the segment is marked RUNNING and
\* the call is dispatched.
begin_segment(db, d, i) ==
    IF db.run[d].status = SKIPPED
    THEN [db |-> IF Unfinished(db.seg[d][i].status)
                 THEN SetSegment(db, d, i, SKIPPED,
                                 SkipMarker(skip_reason(db.run[d])))
                 ELSE db,
          dispatched |-> FALSE]
    ELSE [db |-> IF db.seg[d][i].status = PENDING
                 THEN [db EXCEPT !.seg[d][i].status = RUNNING]
                 ELSE db,
          dispatched |-> TRUE]

\* process_segment after the external call returned `outcome`.
end_segment(db, d, i, outcome) ==
    IF outcome = Exc
    THEN update_extraction_run_status(mark_failed(db, d, i), d)
    ELSE process_segment_response(db, d, i, outcome)

\* _run_extraction_segments_async after the HEADER segment was processed:
\* a SKIPPED run returns (and the caller's merge does nothing); a run with
\* list segments starts them with asyncio.gather; a run without updates its
\* status and is merged.
after_header(db, d, ord) ==
    IF db.run[d].status = SKIPPED
    THEN [db |-> merge_segments_and_persist(db, d, ord), pc |-> "done"]
    ELSE IF ListIdx(db, d) # {}
    THEN [db |-> db, pc |-> "gather"]
    ELSE [db |-> merge_segments_and_persist(
                     update_extraction_run_status(db, d), d, ord),
          pc |-> "done"]

\* The list tasks of a run: "ready" (not started, or waiting for the
\* semaphore), "call" (external call in flight), "fin" (returned).
NoTasks == <<>>
ReadyTasks(db, d) == [i \in SegIdx(db, d) |->
                         IF i \in ListIdx(db, d) THEN "ready" ELSE "none"]

\* List tasks that are gathered together with the HEADER task.
list_phase_with_header(d) == pc[d] \in {"header_call", "gather"}

\* The list tasks are created and gathered after `await process_segment`
\* of the HEADER segment has returned.
list_phase(d) == pc[d] = "gather"

\* The background tasks start in the order of the uploads.
TaskStarts(d) == pc[d] = "uploaded" /\ \A e \in Docs : e < d => pc[e] # "uploaded"

\* The background task starts: upload, run and segments, run RUNNING, and
\* the HEADER segment up to its external call.
StartExtraction(d) ==
    /\ TaskStarts(d)
    /\ \E ord \in SegmentOrders(create_run_and_segments(DB, d), d) :
       LET db1 == create_run_and_segments(DB, d)
           db2 == [db1 EXCEPT !.run[d].status = RUNNING]
           b == begin_segment(db2, d, 1)
           a == after_header(b.db, d, ord)
       IN  /\ SetDB(IF b.dispatched THEN b.db ELSE a.db)
           /\ pc' = [pc EXCEPT ![d] = IF b.dispatched THEN "header_call" ELSE a.pc]
           /\ lt' = [lt EXCEPT ![d] = ReadyTasks(db1, d)]
    /\ UNCHANGED <<document, op, plan_in, plan_out, answers, fn_in, fn_out, api_key_settings>>

\* upload_file raises: no run exists yet, so nothing is marked.
UploadFails(d) ==
    /\ TaskStarts(d)
    /\ pc' = [pc EXCEPT ![d] = "aborted"]
    /\ UNCHANGED <<document, run, seg, header, voters, document_sections, lt,
                   op, plan_in, plan_out, answers, fn_in, fn_out, api_key_settings>>

\* The HEADER call returns (or raises) and the task goes on to the list
\* phase or to the end.
HeaderReturns(d, outcome) ==
    /\ pc[d] = "header_call"
    /\ \E ord \in SegmentOrders(DB, d) :
       LET a == after_header(end_segment(DB, d, 1, outcome), d, ord)
       IN  /\ SetDB(a.db)
           /\ pc' = [pc EXCEPT ![d] = a.pc]
    /\ UNCHANGED <<document, lt, op, plan_in, plan_out, answers, fn_in, fn_out, api_key_settings>>

\* The list calls of document d's initial run that hold the semaphore.
calls_in_flight(d) == {i \in DOMAIN lt[d] : lt[d][i] = "call"}

\* A list task enters the semaphore (tasks are served in creation order)
\* and runs up to its external call.
ListDispatch(d, i) ==
    /\ list_phase(d)
    /\ i \in DOMAIN lt[d]
    /\ lt[d][i] = "ready"
    /\ \A j \in DOMAIN lt[d] : j < i => lt[d][j] # "ready"
    /\ Cardinality(calls_in_flight(d)) < list_semaphore
    /\ LET b == begin_segment(DB, d, i)
       IN  /\ SetDB(b.db)
           /\ lt' = [lt EXCEPT ![d][i] = IF b.dispatched THEN "call" ELSE "fin"]
    /\ UNCHANGED <<document, pc, op, plan_in, plan_out, answers, fn_in, fn_out, api_key_settings>>

\* A list call returns (or raises).
ListReturns(d, i, outcome) ==
    /\ pc[d] = "gather"
    /\ i \in DOMAIN lt[d]
    /\ lt[d][i] = "call"
    /\ SetDB(end_segment(DB, d, i, outcome))
    /\ lt' = [lt EXCEPT ![d][i] = "fin"]
    /\ UNCHANGED <<document, pc, op, plan_in, plan_out, answers, fn_in, fn_out, api_key_settings>>

\* asyncio.gather returned: section occurrences, final status update, then
\* the caller's merge; an error of the section step ends the task.
GatherDone(d) ==
    /\ pc[d] = "gather"
    /\ \A i \in DOMAIN lt[d] : lt[d][i] \in {"none", "fin"}
    /\ \E ord \in SegmentOrders(DB, d), sord \in SectionOrders(DB, d) :
       LET f == finish_run(DB, d, TRUE, sord, ord)
       IN  /\ SetDB(f.db)
           /\ pc' = [pc EXCEPT ![d] = IF f.raised THEN "raised" ELSE "done"]
    /\ UNCHANGED <<document, lt, op, plan_in, plan_out, answers, fn_in, fn_out, api_key_settings>>

(***************************************************************************)
(* Retries: retry_segment, retry_failed_segments_for_document and          *)
(* _retry_segment_async                                                    *)
(***************************************************************************)
\* A check that turns away SKIPPED segments only.
can_retry_segment_not_skipped(segment) == segment.status # SKIPPED

\* ExtractionService._can_retry_segment.  Every request of the model is made
\* within 48 hours of the segment's last update.
can_retry_segment(segment) ==
    IF segment.status = SKIPPED THEN FALSE
    ELSE IF segment.status # FAILED THEN FALSE
    ELSE TRUE

\* The statuses process_single_segment turns into SKIPPED in a SKIPPED run.
retry_skippable == {PENDING, RUNNING, FAILED}

\* _retry_segment_async up to the external call: the segment is reset to
\* RUNNING with its payloads cleared; in a SKIPPED run it is then marked
\* SKIPPED and nothing is dispatched.
begin_retry(db, d, i) ==
    LET db1 == [db EXCEPT !.seg[d][i] =
                   [@ EXCEPT !.status = RUNNING,
                             !.raw_response_json = RawNull,
                             !.parsed_header_json = NoHeaderJson,
                             !.parsed_list_json = NoListJson]]
    IN  IF db1.run[d].status = SKIPPED
        THEN [db |-> IF db1.seg[d][i].status \in retry_skippable
                     THEN SetSegment(db1, d, i, SKIPPED,
                                     SkipMarker(skip_reason(db1.run[d])))
                     ELSE db1,
              dispatched |-> FALSE]
        ELSE [db |-> db1, dispatched |-> TRUE]

\* _retry_segment_async after process_single_segment returned True.
after_retry_success(db, d, i, sord, ord) ==
    LET s == db.seg[d][i]
        dup == check_duplicate_document(db, s.parsed_header_json, d)
    IN  IF /\ s.segment_type = HEADER
           /\ s.status = DONE
           /\ s.parsed_header_json.present
           /\ dup.is_duplicate
        THEN [db |-> skip_duplicate_runs(db, s.parsed_header_json, d,
                                         dup.error_msg),
              raised |-> FALSE]
        ELSE finish_run(db, d, s.segment_type = LIST_CHUNK, sord, ord)

\* _retry_segment_async after the external call returned `outcome`.
end_retry(db, d, i, outcome, sord, ord) ==
    IF outcome = Exc
    THEN [db |-> mark_failed(db, d, i), raised |-> FALSE]
    ELSE after_retry_success(process_segment_response(db, d, i, outcome),
                             d, i, sord, ord)

\* The loop `for segment in retryable_segments: await _retry_segment_async`
\* up to the next external call.
RECURSIVE retry_queue(_, _, _)
retry_queue(db, d, queue) ==
    IF queue = <<>>
    THEN [db |-> db, calls |-> {}, queue |-> <<>>]
    ELSE LET b == begin_retry(db, d, Head(queue))
         IN  IF b.dispatched
             THEN [db |-> b.db, calls |-> {Head(queue)}, queue |-> Tail(queue)]
             ELSE retry_queue(b.db, d, Tail(queue))

\* The retryable segments that retry_failed_segments_for_document collects
\* before it starts the first retry.
retryable_segments(db, d) ==
    {i \in SegIdx(db, d) : /\ db.seg[d][i].status = FAILED
                           /\ can_retry_segment(db.seg[d][i])}

\* A retry request: not made yet ("idle"), awaiting the external calls in
\* `calls` ("call"), or answered ("done").
IdleOp == [pc |-> "idle", kind |-> "none", doc |-> 0, calls |-> {}, queue |-> <<>>]
\* A request that was answered.
DoneOp == [pc |-> "done", kind |-> "none", doc |-> 0, calls |-> {}, queue |-> <<>>]
\* A request whose handler raised.
RaisedOp == [pc |-> "raised", kind |-> "none", doc |-> 0, calls |-> {}, queue |-> <<>>]
\* Requests are numbered in the order they arrive.
NextRequest(o) == op[o].pc = "idle" /\ \A p \in Ops : p < o => op[p].pc # "idle"

StartOp(o, kind, d, i, r) ==
    /\ SetDB(r.db)
    /\ LET calls == (op[o].calls \ {i}) \cup r.calls
       IN  op' = [op EXCEPT ![o] =
                     IF calls = {} /\ r.queue = <<>> THEN DoneOp
                     ELSE [pc |-> "call", kind |-> kind, doc |-> d,
                           calls |-> calls, queue |-> r.queue]]

\* POST /segments/{id}/retry for a segment that passes _can_retry_segment.
RetrySegment(o, d, i) ==
    /\ NextRequest(o)
    /\ i \in SegIdx(DB, d)
    /\ can_retry_segment(seg[d][i])
    /\ StartOp(o, "single", d, 0, retry_queue(DB, d, <<i>>))
    /\ UNCHANGED <<document, pc, lt, plan_in, plan_out, answers, fn_in, fn_out, api_key_settings>>

\* POST /documents/{id}/retry-failed-segments with a retryable segment.
RetryFailedSegments(o, d) ==
    /\ NextRequest(o)
    /\ retryable_segments(DB, d) # {}
    /\ \E queue \in Orders(retryable_segments(DB, d)) :
           StartOp(o, "bulk", d, 0, retry_queue(DB, d, queue))
    /\ UNCHANGED <<document, pc, lt, plan_in, plan_out, answers, fn_in, fn_out, api_key_settings>>

\* The external call of a retry returns (or raises); a bulk retry goes on
\* with its next segment, unless the section step raised, which ends the
\* request.
RetryReturns(o, i, outcome) ==
    /\ op[o].pc = "call"
    /\ i \in op[o].calls
    /\ outcome \in Responses(seg[op[o].doc][i].segment_type) \cup {Exc}
    /\ \E ord \in SegmentOrders(DB, op[o].doc),
          sord \in SectionOrders(DB, op[o].doc) :
       LET d == op[o].doc
           e == end_retry(DB, d, i, outcome, sord, ord)
       IN  IF e.raised
           THEN SetDB(e.db) /\ op' = [op EXCEPT ![o] = RaisedOp]
           ELSE StartOp(o, op[o].kind, d, i, retry_queue(e.db, d, op[o].queue))
    /\ UNCHANGED <<document, pc, lt, plan_in, plan_out, answers, fn_in, fn_out, api_key_settings>>

(***************************************************************************)
(* Specification of the run and segment state machine                      *)
(***************************************************************************)
NoPlan == [page_count |-> JNull, max_pages_per_call |-> 0]
NoSegments == [returned |-> FALSE, segments |-> <<>>]
\* No function is under check.
NoCall == [f |-> "none"]

\* ApiKeyProvider, and the api_key_settings table without a row.
Providers == {"GEMINI", "GPT"}
NoSetting == [present |-> FALSE]
NoSettings == [provider \in Providers |-> NoSetting]

Init ==
    /\ document = [d \in Docs |-> [page_count |-> JInt(PagesDoc)]]
    /\ run = [d \in Docs |-> NoRunRow]
    /\ seg = [d \in Docs |-> <<>>]
    /\ header = [d \in Docs |-> NoHeaderRow]
    /\ pc = [d \in Docs |-> "uploaded"]
    /\ lt = [d \in Docs |-> NoTasks]
    /\ op = [o \in Ops |-> IdleOp]
    /\ plan_in = NoPlan
    /\ plan_out = NoSegments
    /\ voters = [d \in Docs |-> <<>>]
    /\ document_sections = [d \in Docs |-> <<>>]
    /\ api_key_settings = NoSettings
    /\ answers = {EmptyAnswer}
    /\ fn_in = NoCall
    /\ fn_out = NoCall

Next ==
    \/ \E d \in Docs : StartExtraction(d)
    \/ \E d \in Docs : UploadFails(d)
    \/ \E d \in Docs : \E outcome \in HeaderResponses \cup {Exc} :
           HeaderReturns(d, outcome)
    \/ \E d \in Docs : \E i \in DOMAIN seg[d] : ListDispatch(d, i)
    \/ \E d \in Docs : \E i \in DOMAIN seg[d] :
           \E outcome \in ListResponses \cup {Exc} : ListReturns(d, i, outcome)
    \/ \E d \in Docs : GatherDone(d)
    \/ \E o \in Ops : \E d \in Docs : \E i \in DOMAIN seg[d] : RetrySegment(o, d, i)
    \/ \E o \in Ops : \E d \in Docs : RetryFailedSegments(o, d)
    \/ \E o \in Ops : \E i \in op[o].calls :
           \E outcome \in HeaderResponses \cup ListResponses \cup {Exc} :
               RetryReturns(o, i, outcome)

Spec == Init /\ [][Next]_vars

(***************************************************************************)
(* The same state machine for one document with more list chunks than the  *)
(* semaphore has permits (the second upload failed), with one retry        *)
(* request.                                                                *)
(***************************************************************************)
InitWide ==
    /\ document = [d \in Docs |-> [page_count |-> JInt(PagesWide)]]
    /\ run = [d \in Docs |-> NoRunRow]
    /\ seg = [d \in Docs |-> <<>>]
    /\ header = [d \in Docs |-> NoHeaderRow]
    /\ pc = [d \in Docs |-> IF d = 1 THEN "uploaded" ELSE "aborted"]
    /\ lt = [d \in Docs |-> NoTasks]
    /\ op = [o \in Ops |-> IF o = 1 THEN IdleOp ELSE DoneOp]
    /\ plan_in = NoPlan
    /\ plan_out = NoSegments
    /\ voters = [d \in Docs |-> <<>>]
    /\ document_sections = [d \in Docs |-> <<>>]
    /\ api_key_settings = NoSettings
    /\ answers = {EmptyAnswer}
    /\ fn_in = NoCall
    /\ fn_out = NoCall

SpecWide == InitWide /\ [][Next]_vars

(***************************************************************************)
(* The segment planner on its own: _build_segments applied once to a page  *)
(* count and a chunk size drawn from bounded sets.  The page count is the  *)
(* nullable column documents.page_count; the chunk size is at least 1      *)
(* (with a chunk size below 1 and more than one page the loop of           *)
(* _build_segments does not advance and never returns).                    *)
(***************************************************************************)
MaxPages == 12
MaxChunk == 9

PageCounts == {JNull} \cup {JInt(n) : n \in -1..MaxPages}

InitPlanner ==
    /\ document = [d \in Docs |-> [page_count |-> JInt(PagesDoc)]]
    /\ run = [d \in Docs |-> NoRunRow]
    /\ seg = [d \in Docs |-> <<>>]
    /\ header = [d \in Docs |-> NoHeaderRow]
    /\ pc = [d \in Docs |-> "aborted"]
    /\ lt = [d \in Docs |-> NoTasks]
    /\ op = [o \in Ops |-> DoneOp]
    /\ plan_in \in [page_count : PageCounts, max_pages_per_call : 1..MaxChunk]
    /\ plan_out = NoSegments
    /\ voters = [d \in Docs |-> <<>>]
    /\ document_sections = [d \in Docs |-> <<>>]
    /\ api_key_settings = NoSettings
    /\ answers = {EmptyAnswer}
    /\ fn_in = NoCall
    /\ fn_out = NoCall

BuildSegments ==
    /\ plan_in # NoPlan
    /\ ~plan_out.returned
    /\ plan_out' = [returned |-> TRUE,
                     segments |-> build_segments(plan_in.page_count,
                                                 plan_in.max_pages_per_call)]
    /\ UNCHANGED <<document, run, seg, header, voters, document_sections, pc,
                   lt, op, plan_in, answers, fn_in, fn_out, api_key_settings>>

NextPlanner == BuildSegments

SpecPlanner == InitPlanner /\ [][NextPlanner]_vars

Planned == plan_out.returned
PlannedSegments == plan_out.segments
PlannedPages(s) == s.page_start..s.page_end
PlannedN == plan_in.page_count.v
PlannedM == plan_in.max_pages_per_call
ManyPages == plan_in.page_count.k = "int" /\ plan_in.page_count.v > 1

\* C9: for a document whose page count is missing or at most 1 the planner
\* returns exactly one segment, the HEADER segment on pages 1..1, and no
\* LIST_CHUNK segment.
C9_SinglePagePlan ==
    (Planned /\ ~ManyPages) =>
        /\ PlannedSegments = <<SegmentSpec(HEADER, 1, 1)>>
        /\ \A k \in DOMAIN PlannedSegments : PlannedSegments[k].segment_type # LIST_CHUNK

C9_Witness ==
    /\ Planned
    /\ plan_in.page_count = JNull
    /\ plan_in.max_pages_per_call = gemini_max_pages_per_call

\* C10: for a page count N > 1 and a chunk size M >= 1 the planner returns
\* the HEADER segment on pages 1..1 followed by LIST_CHUNK segments in page
\* order, each non-empty and at most M pages wide, pairwise disjoint, never
\* containing page 1, whose union is exactly the pages 2..N.
C10_ListChunksPartition ==
    (Planned /\ ManyPages) =>
        /\ PlannedSegments[1] = SegmentSpec(HEADER, 1, 1)
        /\ Len(PlannedSegments) >= 2
        /\ \A k \in 2..Len(PlannedSegments) :
              /\ PlannedSegments[k].segment_type = LIST_CHUNK
              /\ PlannedSegments[k].page_start <= PlannedSegments[k].page_end
              /\ PlannedSegments[k].page_end - PlannedSegments[k].page_start + 1 <= PlannedM
              /\ 1 \notin PlannedPages(PlannedSegments[k])
        /\ \A j, k \in 2..Len(PlannedSegments) :
              j < k => /\ PlannedSegments[j].page_end < PlannedSegments[k].page_start
                       /\ PlannedPages(PlannedSegments[j]) \cap PlannedPages(PlannedSegments[k]) = {}
        /\ UNION {PlannedPages(PlannedSegments[k]) : k \in 2..Len(PlannedSegments)} = 2..PlannedN

C10_Witness ==
    /\ Planned
    /\ ManyPages
    /\ Len(PlannedSegments) >= 4
    /\ PlannedSegments[Len(PlannedSegments)].page_end - PlannedSegments[Len(PlannedSegments)].page_start + 1
           < PlannedM

(***************************************************************************)
(* Properties of the run and segment state machine                         *)
(***************************************************************************)
Terminal(status) == status \in {DONE, FAILED, SKIPPED}
HasRun(d) == run[d].status # NO_RUN
ListSegments(d) == {i \in DOMAIN seg[d] : seg[d][i].segment_type = LIST_CHUNK}
\* A retry request has the external call of segment i of document d in
\* flight.
RetryInFlight(d, i) ==
    \E o \in Ops : op[o].pc = "call" /\ op[o].doc = d /\ i \in op[o].calls
\* No background task and no retry request of document d is under way.
Quiescent(d) ==
    /\ pc[d] = "done"
    /\ \A o \in Ops : op[o].pc = "call" => op[o].doc # d

\* C1: in every reachable state, if any segment of a run is PENDING or
\* RUNNING then the run's status is PENDING or RUNNING.
C1_UnfinishedSegmentUnfinishedRun ==
    \A d \in Docs :
        (\E i \in DOMAIN seg[d] : Unfinished(seg[d][i].status))
            => run[d].status \in {PENDING, RUNNING}

\* C2: once all segments of a run are terminal and no handler of the run is
\* under way, the run status is COMPLETED, PARTIAL, FAILED or SKIPPED; a run
\* is never left RUNNING with every segment terminal.
C2_TerminalSegmentsFinalRun ==
    \A d \in Docs :
        (/\ HasRun(d)
         /\ Quiescent(d)
         /\ \A i \in DOMAIN seg[d] : Terminal(seg[d][i].status))
            => run[d].status \in {COMPLETED, PARTIAL, FAILED, SKIPPED}

\* The (state, constituency number, part number) triple of a parsed header.
SameHeaderTriple(h1, h2) ==
    /\ h1.present /\ h2.present
    /\ has_triple(h1) /\ has_triple(h2)
    /\ h1.state = h2.state
    /\ to_int(h1.ac_number_english) = to_int(h2.ac_number_english)
    /\ to_int(h1.part_number) = to_int(h2.part_number)
NamesTriple(msg, h) ==
    /\ msg.k = "document_already_processed"
    /\ msg.state = h.state
    /\ to_int(msg.constituency) = to_int(h.ac_number_english)
    /\ to_int(msg.part_number) = to_int(h.part_number)

\* C3: when two documents whose headers carry the identical triple have been
\* uploaded and extracted (both initial runs are over, no retry was
\* requested), exactly one of the two runs is COMPLETED or PARTIAL and the
\* other is SKIPPED with an error message that names the triple.
C3_OneRunAcceptedOtherSkipped ==
    (/\ \A d \in Docs : pc[d] = "done"
     /\ \A o \in Ops : op[o] = IdleOp
     /\ SameHeaderTriple(seg[1][1].parsed_header_json,
                         seg[2][1].parsed_header_json))
        => \E d \in Docs : \E e \in Docs \ {d} :
               /\ run[d].status \in {COMPLETED, PARTIAL}
               /\ run[e].status = SKIPPED
               /\ NamesTriple(run[e].error_message, seg[e][1].parsed_header_json)

StoredTripleNonNull(row) ==
    /\ row.present
    /\ row.state.k # "null"
    /\ row.assembly_constituency_number_english.k # "null"
    /\ row.part_number.k # "null"
SameStoredTriple(r1, r2) ==
    /\ r1.state = r2.state
    /\ r1.assembly_constituency_number_english
           = r2.assembly_constituency_number_english
    /\ r1.part_number = r2.part_number

CallDispatched(d) ==
    \/ pc[d] # "header_call" /\ pc'[d] = "header_call"
    \/ \E i \in DOMAIN lt'[d] :
           lt'[d][i] = "call" /\ (i \notin DOMAIN lt[d] \/ lt[d][i] # "call")
    \/ \E o \in Ops : \E i \in op'[o].calls :
           /\ op'[o].doc = d
           /\ ~(op[o].doc = d /\ i \in op[o].calls)

\* C5: once a run's status is SKIPPED no later step (segment start, status
\* aggregation, merge, retry, a later duplicate-guard firing) changes the
\* run's status, and no external call is dispatched for a segment of a
\* SKIPPED run.
C5_SkippedIsSticky ==
    [][\A d \in Docs :
          /\ run[d].status = SKIPPED => run'[d].status = SKIPPED
          /\ CallDispatched(d) =>
                 run[d].status # SKIPPED /\ run'[d].status # SKIPPED]_vars

C5_Witness ==
    \E d \in Docs :
        /\ run[d].status = SKIPPED
        /\ pc[d] = "done"
        /\ \E i \in DOMAIN seg[d] : seg[d][i].status = DONE
        /\ \E i \in DOMAIN seg[d] : /\ seg[d][i].status = SKIPPED
                                    /\ lt[d][i] = "fin"

\* C6: a run whose status is COMPLETED has every segment DONE, including
\* the HEADER segment and at least one LIST_CHUNK segment, and none FAILED.
C6_CompletedRunAllDone ==
    \A d \in Docs :
        run[d].status = COMPLETED =>
            /\ \A i \in DOMAIN seg[d] : seg[d][i].status = DONE
            /\ \E i \in DOMAIN seg[d] : /\ seg[d][i].segment_type = HEADER
                                        /\ seg[d][i].status = DONE
            /\ \E i \in ListSegments(d) : seg[d][i].status = DONE
            /\ \A i \in DOMAIN seg[d] : seg[d][i].status # FAILED

C8_BoundedConcurrency ==
    /\ \A d \in Docs :
          /\ Cardinality(calls_in_flight(d)) <= 3
          /\ pc[d] = "header_call" => calls_in_flight(d) = {}
    /\ \A o \in Ops : Cardinality(op[o].calls) <= 1

C8_Witness ==
    \E d \in Docs :
        /\ Cardinality(calls_in_flight(d)) = 3
        /\ \E i \in DOMAIN lt[d] : lt[d][i] = "ready"
        /\ \E o \in Ops : op[o].doc = d /\ Cardinality(op[o].calls) = 1


(***************************************************************************)
(* Functions on their own: one function is applied once to arguments drawn *)
(* from bounded sets, while the extraction machine stands still.           *)
(***************************************************************************)
extraction == <<document, run, seg, header, voters, document_sections, pc, lt,
                op, plan_in, plan_out, answers>>
machine == <<extraction, api_key_settings>>

MachineStopped ==
    /\ document = [d \in Docs |-> [page_count |-> JInt(PagesDoc)]]
    /\ run = [d \in Docs |-> NoRunRow]
    /\ seg = [d \in Docs |-> <<>>]
    /\ header = [d \in Docs |-> NoHeaderRow]
    /\ pc = [d \in Docs |-> "aborted"]
    /\ lt = [d \in Docs |-> NoTasks]
    /\ op = [o \in Ops |-> DoneOp]
    /\ plan_in = NoPlan
    /\ plan_out = NoSegments
    /\ voters = [d \in Docs |-> <<>>]
    /\ document_sections = [d \in Docs |-> <<>>]
    /\ api_key_settings = NoSettings
    /\ answers = {EmptyAnswer}

(***************************************************************************)
(* The retry window: _can_retry_segment with the clock.  Times are minutes *)
(* since an epoch, in UTC (a timezone-naive updated_at is read as UTC).    *)
(***************************************************************************)
retry_limit_hours == 48
hours(h) == h * 60

SegmentSkippedMsg == "Segment is SKIPPED and cannot be retried"
SegmentNotFailedMsg == "Segment is not in FAILED status"
RetryLimitMsg == "Retry time limit exceeded (48 hours)"
OkMsg == "OK"

\* An expiry test that also rejects a segment updated exactly at the limit.
expired_at_limit(segment_updated, time_limit) == segment_updated <= time_limit

\* `if segment_updated < time_limit`
expired(segment_updated, time_limit) == segment_updated < time_limit

\* ExtractionService._can_retry_segment, the clock reading `now` made explicit.
can_retry_segment_at(segment, now) ==
    IF segment.status = SKIPPED
    THEN [can_retry |-> FALSE, reason |-> SegmentSkippedMsg]
    ELSE IF segment.status # FAILED
    THEN [can_retry |-> FALSE, reason |-> SegmentNotFailedMsg]
    ELSE LET time_limit == now - hours(retry_limit_hours)
         IN  IF expired(segment.updated_at, time_limit)
             THEN [can_retry |-> FALSE, reason |-> RetryLimitMsg]
             ELSE [can_retry |-> TRUE, reason |-> OkMsg]

MaxUpdatedAt == 4
MaxSkew == 3

SegmentStatuses == {PENDING, RUNNING, DONE, FAILED, SKIPPED}

\* Ages of a segment: around zero and around the limit.
Ages == (-MaxSkew..MaxSkew)
            \cup ((hours(retry_limit_hours) - MaxSkew)
                      ..(hours(retry_limit_hours) + MaxSkew))

InitRetryWindow ==
    /\ MachineStopped
    /\ \E status \in SegmentStatuses, updated_at \in 0..MaxUpdatedAt, age \in Ages :
           fn_in = [f |-> "can_retry_segment",
                    segment |-> [status |-> status, updated_at |-> updated_at],
                    now |-> updated_at + age]
    /\ fn_out = NoCall

CanRetrySegment ==
    /\ fn_in.f = "can_retry_segment"
    /\ fn_out = NoCall
    /\ fn_out' = [f |-> "can_retry_segment",
                  result |-> can_retry_segment_at(fn_in.segment, fn_in.now)]
    /\ UNCHANGED <<machine, fn_in>>

NextRetryWindow == CanRetrySegment

SpecRetryWindow == InitRetryWindow /\ [][NextRetryWindow]_vars

Checked(f) == fn_out.f = f
SegmentAge == fn_in.now - fn_in.segment.updated_at

\* C11: a segment is retryable exactly when its status is FAILED and its
\* updated_at is at most 48 hours before now; a FAILED segment updated
\* 47h59m ago is retryable, one updated 48h01m ago is rejected with the
\* reason "Retry time limit exceeded (48 hours)", and a SKIPPED, PENDING,
\* RUNNING or DONE segment is never retryable whatever its age.
C11_RetryWindow ==
    Checked("can_retry_segment") =>
        /\ fn_out.result.can_retry
               <=> (fn_in.segment.status = FAILED /\ SegmentAge <= 48 * 60)
        /\ (fn_in.segment.status = FAILED /\ SegmentAge = 47 * 60 + 59)
               => fn_out.result.can_retry
        /\ (fn_in.segment.status = FAILED /\ SegmentAge = 48 * 60 + 1)
               => fn_out.result = [can_retry |-> FALSE, reason |-> RetryLimitMsg]
        /\ fn_in.segment.status # FAILED => ~fn_out.result.can_retry

\* A FAILED segment updated exactly 48 hours ago was found retryable.
C11_Witness ==
    /\ Checked("can_retry_segment")
    /\ fn_in.segment.status = FAILED
    /\ SegmentAge = 48 * 60
    /\ fn_out.result.can_retry


(***************************************************************************)
(* The Reconciler on its own: _deduplicate_and_validate_voters applied to  *)
(* a list of row objects, then to its own output.                          *)
(***************************************************************************)
MaxRows == 3

NoName == Name(JText(""), JNull)

\* Row objects as the external service writes them: one serial number in
\* several spellings and with several degrees of completeness, rows without
\* a usable serial number, a row whose voter_name is null.
RowSamples ==
    { Row(JInt(1), Name(JText("A"), JNull), JNull, JNull, JInt(30), JNull),
      Row(JStr(1), Name(JNull, JText("B")), JText("12"), JNull, JNull, JNull),
      Row(JStrPadded(1), Name(JText("A"), JText("B")), JText("12"), JText("F"),
          JInt(30), JText("ID1")),
      Row(JInt(1), NoName, JNull, JNull, JInt(0), JNull),
      Row(JInt(1), NameNull, JNull, JNull, JNull, JNull),
      Row(JInt(2), NameMissing, JNull, JText("M"), JNull, JNull),
      Row(JStrComma(2), Name(JText("C"), JNull), JNull, JNull, JNull, JNull),
      Row(JNull, Name(JText("D"), JNull), JNull, JNull, JInt(41), JNull),
      Row(JStrText, NameMissing, JText("7"), JNull, JNull, JNull) }

RowLists == UNION {[1..n -> RowSamples] : n \in 0..MaxRows}

NotApplied == [applied |-> FALSE]
Applied(result) == [applied |-> TRUE, raised |-> result.raised,
                    value |-> result.value]

InitReconciler ==
    /\ MachineStopped
    /\ \E all_rows \in RowLists :
           fn_in = [f |-> "deduplicate_and_validate_voters", all_rows |-> all_rows]
    /\ fn_out = NoCall

\* The Reconciler is applied to the rows.
Deduplicate ==
    /\ fn_in.f = "deduplicate_and_validate_voters"
    /\ fn_out = NoCall
    /\ fn_out' = [f |-> "deduplicate_and_validate_voters",
                  result |-> Applied(deduplicate_and_validate_voters(fn_in.all_rows)),
                  again |-> NotApplied]
    /\ UNCHANGED <<machine, fn_in>>

\* The Reconciler is applied to the rows it returned.
DeduplicateAgain ==
    /\ fn_out.f = "deduplicate_and_validate_voters"
    /\ ~fn_out.result.raised
    /\ ~fn_out.again.applied
    /\ fn_out' = [fn_out EXCEPT
                     !.again = Applied(deduplicate_and_validate_voters(
                                           fn_out.result.value))]
    /\ UNCHANGED <<machine, fn_in>>

NextReconciler == Deduplicate \/ DeduplicateAgain

SpecReconciler == InitReconciler /\ [][NextReconciler]_vars

Reconciled == Checked("deduplicate_and_validate_voters") /\ ~fn_out.result.raised
ReconciledTwice == Reconciled /\ fn_out.again.applied
InputRows == fn_in.all_rows
OutputRows == fn_out.result.value

\* C12: the Reconciler is idempotent: applied to its own output it returns
\* that same output, the same rows in the same order.
C12_ReconcilerIdempotent ==
    ReconciledTwice =>
        /\ ~fn_out.again.raised
        /\ fn_out.again.value = OutputRows

\* The Reconciler removed a duplicate, kept two rows without a serial number
\* and was applied again to what it returned.
C12_Witness ==
    /\ ReconciledTwice
    /\ Len(InputRows) = 3
    /\ Len(OutputRows) = 2
    /\ \E k \in 1..Len(OutputRows) : ~has_serial(OutputRows[k])
    /\ fn_out.again.value = OutputRows

\* The completeness score in the claim's words: how many of name, house
\* number, gender, age and photo id are non-empty.
Completeness(row) ==
    Bit(row.voter_name.k = "object"
            /\ (truthy(row.voter_name.english) \/ truthy(row.voter_name.local)))
        + Bit(truthy(row.house_number)) + Bit(truthy(row.gender))
        + Bit(truthy(row.age)) + Bit(truthy(row.photo_id))

\* The input positions of the rows of serial number sn.
GroupOf(sn) == {k \in 1..Len(InputRows) : serial_key(InputRows[k]) = JInt(sn)}

\* The first position of the group that holds the highest score.
FirstBest(sn) ==
    CHOOSE j \in GroupOf(sn) :
        \A i \in GroupOf(sn) :
            \/ Completeness(InputRows[i]) < Completeness(InputRows[j])
            \/ Completeness(InputRows[i]) = Completeness(InputRows[j]) /\ j <= i

\* The row the Reconciler returned for serial number sn.
KeptRows(sn) == {OutputRows[k] : k \in {j \in 1..Len(OutputRows) :
                                            serial_key(OutputRows[j]) = JInt(sn)}}

InputSerials == {serial_key(InputRows[k]).v :
                     k \in {j \in 1..Len(InputRows) : has_serial(InputRows[j])}}

\* C13: for every group of input rows sharing one serial number the
\* Reconciler keeps the row with the highest completeness score, whatever
\* the order of the input rows, and of several rows with the highest score
\* the one that comes first in the input.
C13_BestRowKept ==
    Reconciled =>
        \A sn \in InputSerials : KeptRows(sn) = {InputRows[FirstBest(sn)]}

\* Two rows of one serial number tie for the highest score behind a row of
\* lower score, and the first of the two was kept.
C13_Witness ==
    /\ Reconciled
    /\ Len(InputRows) = 3
    /\ \E sn \in InputSerials :
           /\ GroupOf(sn) = {1, 2, 3}
           /\ Completeness(InputRows[1]) < Completeness(InputRows[2])
           /\ Completeness(InputRows[2]) = Completeness(InputRows[3])
           /\ InputRows[2] # InputRows[3]
           /\ KeptRows(sn) = {InputRows[2]}


(***************************************************************************)
(* The Section Resolver on its own: VoterService._find_voter_section       *)
(* applied to a serial number and the section occurrences of a document.   *)
(***************************************************************************)
NoSection == [found |-> FALSE]
Found(section) == [found |-> TRUE, section |-> section]

\* The sort key (start_serial_number, section_id).
key_before(a, b) ==
    \/ a.start_serial_number.v < b.start_serial_number.v
    \/ /\ a.start_serial_number.v = b.start_serial_number.v
       /\ a.section_id <= b.section_id

\* sorted(...) of the occurrences with a start serial number.
RECURSIVE sorted_sections(_)
sorted_sections(S) ==
    IF S = {} THEN <<>>
    ELSE LET first == CHOOSE a \in S : \A b \in S : key_before(a, b)
         IN  <<first>> \o sorted_sections(S \ {first})

\* A range test that hands the next occurrence's first serial to this one.
before_next_inclusive(voter_serial, next_start) == voter_serial <= next_start

\* `if voter_serial < next_start`
before_next(voter_serial, next_start) == voter_serial < next_start

\* The loop of _find_voter_section from position i on.
RECURSIVE find_from(_, _, _)
find_from(sorted, voter_serial, i) ==
    IF i > Len(sorted) THEN NoSection
    ELSE IF sorted[i].start_serial_number.v <= voter_serial
    THEN IF i + 1 <= Len(sorted)
         THEN IF before_next(voter_serial, sorted[i + 1].start_serial_number.v)
              THEN Found(sorted[i])
              ELSE find_from(sorted, voter_serial, i + 1)
         ELSE Found(sorted[i])
    ELSE find_from(sorted, voter_serial, i + 1)

\* VoterService._find_voter_section.
find_voter_section(voter_serial, sections) ==
    IF voter_serial.k = "null" \/ sections = <<>> THEN NoSection
    ELSE LET eligible == {sections[k] : k \in {j \in 1..Len(sections) :
                              sections[j].start_serial_number.k # "null"}}
         IN  IF eligible = {} THEN NoSection
             ELSE find_from(sorted_sections(eligible), voter_serial.v, 1)

MaxOccurrences == 3

SectionIds == {1, 2}
StartSerials == {JNull, JInt(1), JInt(51), JInt(101)}
VoterSerials == {JNull, JInt(0), JInt(1), JInt(50), JInt(51), JInt(75),
                 JInt(101), JInt(120)}
SectionSamples == {Section(id, start) : id \in SectionIds, start \in StartSerials}

\* The occurrence rows of one document: no two rows with the same section
\* id and start serial number (uq_document_section_occurrence).
SectionLists ==
    UNION {{q \in [1..n -> SectionSamples] :
                \A j, k \in 1..n : j # k => q[j] # q[k]} : n \in 0..MaxOccurrences}

InitResolver ==
    /\ MachineStopped
    /\ \E voter_serial \in VoterSerials, sections \in SectionLists :
           fn_in = [f |-> "find_voter_section", voter_serial |-> voter_serial,
                    sections |-> sections]
    /\ fn_out = NoCall

FindVoterSection ==
    /\ fn_in.f = "find_voter_section"
    /\ fn_out = NoCall
    /\ fn_out' = [f |-> "find_voter_section",
                  result |-> find_voter_section(fn_in.voter_serial, fn_in.sections)]
    /\ UNCHANGED <<machine, fn_in>>

NextResolver == FindVoterSection

SpecResolver == InitResolver /\ [][NextResolver]_vars

\* The eligible occurrences that start at or before the voter's serial.
Candidates ==
    IF fn_in.voter_serial.k = "null" THEN {}
    ELSE {fn_in.sections[k] : k \in {j \in 1..Len(fn_in.sections) :
              /\ fn_in.sections[j].start_serial_number.k # "null"
              /\ fn_in.sections[j].start_serial_number.v <= fn_in.voter_serial.v}}

ExampleSections ==
    <<Section(1, JInt(1)), Section(2, JInt(51)), Section(1, JInt(101))>>

\* C14: the Section Resolver returns an eligible occurrence (non-null start)
\* with the largest start <= s, and none when s is null, when there is no
\* eligible occurrence or when every eligible start is > s; for the
\* occurrences [{1,1},{2,51},{1,101}] serial 75 resolves to {2,51}, serial
\* 120 to {1,101} and serial 0 to none.
C14_SectionResolved ==
    Checked("find_voter_section") =>
        /\ fn_out.result.found <=> Candidates # {}
        /\ fn_out.result.found =>
               /\ fn_out.result.section \in Candidates
               /\ \A c \in Candidates :
                      c.start_serial_number.v
                          <= fn_out.result.section.start_serial_number.v
        /\ fn_in.sections = ExampleSections =>
               /\ fn_in.voter_serial = JInt(75)
                      => fn_out.result = Found(Section(2, JInt(51)))
               /\ fn_in.voter_serial = JInt(120)
                      => fn_out.result = Found(Section(1, JInt(101)))
               /\ fn_in.voter_serial = JInt(0) => fn_out.result = NoSection

\* Serial 75 was resolved against the occurrences of the example.
C14_Witness ==
    /\ Checked("find_voter_section")
    /\ fn_in.sections = ExampleSections
    /\ fn_in.voter_serial = JInt(75)
    /\ fn_out.result = Found(Section(2, JInt(51)))


(***************************************************************************)
(* The state machine with row payloads: one document with two list chunks  *)
(* (the second upload failed), list calls that answer with an empty list   *)
(* or with rows that spell serial numbers in several forms, and two retry  *)
(* requests.                                                               *)
(***************************************************************************)
PagesMerge == 10

FullRow(serial_number, english) ==
    Row(serial_number, Name(JText(english), JText("B")), JText("12"), JText("F"),
        JInt(30), JText("ID1"))
BareRow(serial_number) ==
    Row(serial_number, Name(JText("A"), JNull), JNull, JNull, JNull, JNull)

\* What a list call can answer with.
AnswerRows ==
    { <<>>,
      <<BareRow(JStrPadded(1)), FullRow(JInt(1), "A"), BareRow(JNull)>>,
      <<FullRow(JStr(1), "C"), BareRow(JStrComma(2)), BareRow(JInt(2))>> }

InitMerge ==
    /\ document = [d \in Docs |-> [page_count |-> JInt(PagesMerge)]]
    /\ run = [d \in Docs |-> NoRunRow]
    /\ seg = [d \in Docs |-> <<>>]
    /\ header = [d \in Docs |-> NoHeaderRow]
    /\ pc = [d \in Docs |-> IF d = 1 THEN "uploaded" ELSE "aborted"]
    /\ lt = [d \in Docs |-> NoTasks]
    /\ op = [o \in Ops |-> IF o <= 2 THEN IdleOp ELSE DoneOp]
    /\ plan_in = NoPlan
    /\ plan_out = NoSegments
    /\ voters = [d \in Docs |-> <<>>]
    /\ document_sections = [d \in Docs |-> <<>>]
    /\ api_key_settings = NoSettings
    /\ answers = {Answer(rows, <<>>) : rows \in AnswerRows}
    /\ fn_in = NoCall
    /\ fn_out = NoCall

SpecMerge == InitMerge /\ [][Next]_vars


\* The database after the step.
DBNext == [run |-> run', seg |-> seg', header |-> header', voters |-> voters',
           sections |-> document_sections']

\* The Voter rows built from the Reconciler output for the rows of the DONE
\* list segments of document d, for each order of the segments.
Projections(db, d) ==
    {LET validated_rows == deduplicate_and_validate_voters(collect_rows(db, d, ord))
     IN  [k \in 1..Len(validated_rows.value) |-> to_voter(validated_rows.value[k])] :
         ord \in SegmentOrders(db, d)}

\* A step that ends with the merge of document d's run, which is not
\* SKIPPED: the end of the initial run, or the end of a retry request whose
\* last call succeeded.
MergedLast(d) ==
    /\ run'[d].status # SKIPPED
    /\ \/ pc[d] = "gather" /\ pc'[d] = "done"
       \/ \E o \in Ops : \E i \in DOMAIN seg[d] :
              /\ op[o].pc = "call" /\ op[o].doc = d /\ op[o].calls = {i}
              /\ op'[o] = DoneOp
              /\ seg[d][i].status = RUNNING
              /\ seg'[d][i].status = DONE

\* C16: after every merge of a run that is not SKIPPED the document's Voter
\* rows are exactly the Reconciler output for the rows of the run's DONE
\* LIST_CHUNK segments, also when those segments contribute no rows.
C16_VotersAreProjectionAfterMerge ==
    [][\A d \in Docs : MergedLast(d) => voters'[d] \in Projections(DBNext, d)]_vars


\* The Voter rows as a set.
VoterSet(rows) == {rows[k] : k \in 1..Len(rows)}

\* C17: merge is idempotent: a second _merge_segments_and_persist on a run
\* whose segment outputs did not change leaves the document's Voter rows and
\* the run status as the first merge left them.
C17_MergeIdempotent ==
    [][\A d \in Docs : MergedLast(d) =>
           \A ord \in SegmentOrders(DBNext, d) :
               LET again == merge_segments_and_persist(DBNext, d, ord)
               IN  /\ VoterSet(again.voters[d]) = VoterSet(voters'[d])
                   /\ again.run[d].status = run'[d].status]_vars

\* C18: no two Voter rows of one document have the same non-null serial
\* number, also when the raw rows spell one serial in different forms.
C18_OneVoterPerSerial ==
    \A d \in Docs : \A j, k \in 1..Len(voters[d]) :
        (/\ j # k
         /\ voters[d][j].serial_number.k = "int"
         /\ voters[d][k].serial_number.k = "int")
            => voters[d][j].serial_number.v # voters[d][k].serial_number.v

\* The spellings of the serial numbers in the rows of the DONE list segments.
SpellingsOf(d) ==
    {r.serial_number.k :
         r \in UNION {{seg[d][i].parsed_list_json.rows[k] :
                           k \in 1..Len(seg[d][i].parsed_list_json.rows)} :
                      i \in {j \in ListIdx(DB, d) :
                                 /\ seg[d][j].status = DONE
                                 /\ seg[d][j].parsed_list_json.present}}}

\* Two DONE list segments spell serial 1 as an integer, as a digit string and
\* as a padded string, serial 2 with a comma, and the merged Voter rows hold
\* serials 1 and 2 once each.
C18_Witness ==
    /\ SpellingsOf(1) = {"null", "int", "str", "str_padded", "str_comma"}
    /\ Len(voters[1]) = 3
    /\ {voters[1][k].serial_number : k \in 1..3} = {JInt(1), JInt(2), JNull}


(***************************************************************************)
(* The state machine with two documents whose list calls answer with a     *)
(* row, and one retry request: a second document's header can flip the     *)
(* first document's run to SKIPPED while its list call is in flight.       *)
(***************************************************************************)
InitSkip ==
    /\ document = [d \in Docs |-> [page_count |-> JInt(PagesDoc)]]
    /\ run = [d \in Docs |-> NoRunRow]
    /\ seg = [d \in Docs |-> <<>>]
    /\ header = [d \in Docs |-> NoHeaderRow]
    /\ pc = [d \in Docs |-> "uploaded"]
    /\ lt = [d \in Docs |-> NoTasks]
    /\ op = [o \in Ops |-> IF o = 1 THEN IdleOp ELSE DoneOp]
    /\ plan_in = NoPlan
    /\ plan_out = NoSegments
    /\ voters = [d \in Docs |-> <<>>]
    /\ document_sections = [d \in Docs |-> <<>>]
    /\ api_key_settings = NoSettings
    /\ answers = {Answer(<<FullRow(JInt(1), "A")>>, <<>>)}
    /\ fn_in = NoCall
    /\ fn_out = NoCall

SpecSkip == InitSkip /\ [][Next]_vars

\* The step in which the external call for segment i of document d, whose
\* run is SKIPPED by then, returns a response (it does not raise).
ReturnsAfterSkip(d, i) ==
    /\ run[d].status = SKIPPED
    /\ \/ /\ i \in DOMAIN lt[d]
          /\ lt[d][i] = "call"
          /\ lt'[d][i] = "fin"
       \/ /\ pc[d] = "header_call" /\ pc'[d] # "header_call" /\ i = 1
       \/ \E o \in Ops :
              /\ op[o].pc = "call" /\ op[o].doc = d /\ i \in op[o].calls
              /\ ~(op'[o].pc = "call" /\ i \in op'[o].calls)
    /\ seg'[d][i].status # FAILED

\* C19 as stated: a segment whose call was dispatched before its run was
\* flipped to SKIPPED finishes normally: when the call returns successfully
\* after the skip the segment ends DONE with its payload stored.
C19_InFlightResultStored ==
    [][\A d \in Docs : \A i \in DOMAIN seg[d] :
           ReturnsAfterSkip(d, i) =>
               /\ seg'[d][i].status = DONE
               /\ seg'[d][i].raw_response_json.k = "parsed"]_vars

\* C19, as the code has it: when the call of a segment returns successfully
\* after its run was flipped to SKIPPED, the response is discarded: the
\* segment ends SKIPPED with the skip marker, no payload is stored, and the
\* run, the header and the Voter rows of the document stay as they were.
C19_InFlightResultDiscarded ==
    [][\A d \in Docs : \A i \in DOMAIN seg[d] :
           ReturnsAfterSkip(d, i) =>
               /\ seg'[d][i].status = SKIPPED
               /\ seg'[d][i].raw_response_json = SkipMarker(skip_reason(run[d]))
               /\ ~seg'[d][i].parsed_list_json.present
               /\ ~seg'[d][i].parsed_header_json.present
               /\ run'[d] = run[d]
               /\ header'[d] = header[d]
               /\ voters'[d] = voters[d]]_vars

\* A list call of the initial run has returned a response in a SKIPPED run.
C19_Witness ==
    \E d \in Docs : \E i \in DOMAIN lt[d] :
        /\ run[d].status = SKIPPED
        /\ lt[d][i] = "fin"
        /\ seg[d][i].status = SKIPPED


\* The step in which the handler of retry request o returns its response to
\* the caller.
ResponseProduced(o) == op[o].pc # "done" /\ op'[o].pc = "done"

\* C20: retry_segment and retry_failed_segments_for_document return their
\* outcome without blocking on completion: the response is produced before
\* the retried segment's external call has finished, never by the step in
\* which that call returns.
C20_ResponseBeforeCallFinished ==
    [][\A o \in Ops : ResponseProduced(o) => op[o].calls = {}]_vars


(***************************************************************************)
(* The end-to-end scenario: one document of 9 pages (the second upload     *)
(* failed) whose list call answers with rows for the serials 1..50 and one *)
(* more row for serial 25 without an age, at the head, in the middle or at *)
(* the end of the list; one retry request.                                 *)
(***************************************************************************)
ScenarioRow(n, age) ==
    Row(JInt(n), Name(JText("V"), JNull), JText("H"), JText("M"), age, JText("P"))

\* The 51 rows, the incomplete row for serial 25 at position p.
ScenarioRows(p) ==
    [k \in 1..51 |-> IF k < p THEN ScenarioRow(k, JInt(40))
                     ELSE IF k = p THEN ScenarioRow(25, JNull)
                     ELSE ScenarioRow(k - 1, JInt(40))]

InitScenario ==
    /\ document = [d \in Docs |-> [page_count |-> JInt(9)]]
    /\ run = [d \in Docs |-> NoRunRow]
    /\ seg = [d \in Docs |-> <<>>]
    /\ header = [d \in Docs |-> NoHeaderRow]
    /\ pc = [d \in Docs |-> IF d = 1 THEN "uploaded" ELSE "aborted"]
    /\ lt = [d \in Docs |-> NoTasks]
    /\ op = [o \in Ops |-> IF o = 1 THEN IdleOp ELSE DoneOp]
    /\ plan_in = NoPlan
    /\ plan_out = NoSegments
    /\ voters = [d \in Docs |-> <<>>]
    /\ document_sections = [d \in Docs |-> <<>>]
    /\ api_key_settings = NoSettings
    /\ answers = {Answer(ScenarioRows(p), <<>>) : p \in {1, 26, 51}}
    /\ fn_in = NoCall
    /\ fn_out = NoCall

SpecScenario == InitScenario /\ [][Next]_vars

\* Both calls of document d have succeeded, the header with a valid triple,
\* and nothing of the document is under way.
BothCallsSucceeded(d) ==
    /\ Quiescent(d)
    /\ HasRun(d)
    /\ \A i \in DOMAIN seg[d] : seg[d][i].status = DONE
    /\ seg[d][1].parsed_header_json.present
    /\ has_triple(seg[d][1].parsed_header_json)

C23_ReconcilerNeverFails ==
    Checked("deduplicate_and_validate_voters") => ~fn_out.result.raised


(***************************************************************************)
(* Status aggregation on its own: _update_extraction_run_status applied to *)
(* a run row and the segments of the run.                                  *)
(***************************************************************************)
\* finished_at of the run after _update_extraction_run_status at time now:
\* untouched for a SKIPPED or COMPLETED run, None while a segment is
\* unfinished, `run.finished_at or datetime.utcnow()` in each of the three
\* final branches, untouched when no branch applies.
finished_at_after(run_row, segments, now) ==
    LET idx == DOMAIN segments
        any_failed == \E i \in idx : segments[i].status = FAILED
        any_done == \E i \in idx : segments[i].status = DONE
    IN  IF run_row.status \in sticky_statuses THEN run_row.finished_at
        ELSE IF \E i \in idx : Unfinished(segments[i].status) THEN JNull
        ELSE IF (any_done \/ any_failed) /\ run_row.finished_at = JNull THEN now
        ELSE run_row.finished_at

\* _update_extraction_run_status on one run row, finished_at included.
update_run_row(run_row, segments, now) ==
    [update_extraction_run_status(
         [run |-> <<run_row>>, seg |-> <<segments>>], 1).run[1]
     EXCEPT !.finished_at = finished_at_after(run_row, segments, now)]

RunStatuses == {PENDING, RUNNING, COMPLETED, PARTIAL, FAILED, SKIPPED}

MaxListSegments == 2

\* The segments of a run: the HEADER segment of page 1, then the LIST_CHUNK
\* segments, each in any status.
SegmentLists ==
    UNION {{[i \in 1..(n + 1) |->
                 [segment_type |-> IF i = 1 THEN HEADER ELSE LIST_CHUNK,
                  status |-> st[i]]] : st \in [1..(n + 1) -> SegmentStatuses]}
           : n \in 0..MaxListSegments}

InitStatus ==
    /\ MachineStopped
    /\ \E status \in RunStatuses, finished_at \in {JNull, JInt(1)},
          segments \in SegmentLists :
           fn_in = [f |-> "update_extraction_run_status",
                    run |-> [status |-> status, error_message |-> NoMsg,
                             finished_at |-> finished_at],
                    segments |-> segments,
                    now |-> JInt(2)]
    /\ fn_out = NoCall

UpdateExtractionRunStatus ==
    /\ fn_in.f = "update_extraction_run_status"
    /\ fn_out = NoCall
    /\ fn_out' = [f |-> "update_extraction_run_status",
                  result |-> update_run_row(fn_in.run, fn_in.segments, fn_in.now)]
    /\ UNCHANGED <<machine, fn_in>>

NextStatus == UpdateExtractionRunStatus

SpecStatus == InitStatus /\ [][NextStatus]_vars

AllSegments(status) ==
    \A i \in DOMAIN fn_in.segments : fn_in.segments[i].status = status
SomeSegment(status) ==
    \E i \in DOMAIN fn_in.segments : fn_in.segments[i].status = status
SomeListChunk ==
    \E i \in DOMAIN fn_in.segments : fn_in.segments[i].segment_type = LIST_CHUNK
SomeUnfinished == SomeSegment(PENDING) \/ SomeSegment(RUNNING)
CompletedCondition == AllSegments(DONE) /\ SomeListChunk
PartialCondition == SomeSegment(DONE) /\ ~CompletedCondition
FailedCondition == ~SomeSegment(DONE) /\ SomeSegment(FAILED)

\* C24: status aggregation on a run that is neither SKIPPED nor COMPLETED:
\* with all segments terminal it sets COMPLETED exactly when every segment
\* is DONE and at least one is a LIST_CHUNK, PARTIAL exactly when at least
\* one segment is DONE and the COMPLETED condition is not met, FAILED
\* exactly when no segment is DONE and at least one is FAILED, and nothing
\* otherwise; with a PENDING or RUNNING segment it sets RUNNING and clears
\* finished_at.
C24_StatusAggregation ==
    (Checked("update_extraction_run_status")
         /\ fn_in.run.status \notin {SKIPPED, COMPLETED}) =>
        /\ SomeUnfinished =>
               /\ fn_out.result.status = RUNNING
               /\ fn_out.result.finished_at = JNull
        /\ (~SomeUnfinished /\ CompletedCondition) =>
               fn_out.result.status = COMPLETED
        /\ (~SomeUnfinished /\ PartialCondition) =>
               fn_out.result.status = PARTIAL
        /\ (~SomeUnfinished /\ FailedCondition) =>
               fn_out.result.status = FAILED
        /\ (~SomeUnfinished /\ ~CompletedCondition /\ ~PartialCondition
                /\ ~FailedCondition) =>
               fn_out.result = fn_in.run

\* A PARTIAL run whose HEADER and only LIST_CHUNK are DONE became COMPLETED
\* and kept its finish time.
C24_Witness ==
    /\ Checked("update_extraction_run_status")
    /\ fn_in.run.status = PARTIAL
    /\ fn_in.run.finished_at = JInt(1)
    /\ Len(fn_in.segments) = 2
    /\ CompletedCondition
    /\ fn_out.result.status = COMPLETED
    /\ fn_out.result.finished_at = JInt(1)


(***************************************************************************)
(* The state machine for a document of one page (its run has the HEADER    *)
(* segment only) uploaded before a document with list pages.               *)
(***************************************************************************)
InitHeaderOnly ==
    /\ document = [d \in Docs |-> [page_count |-> IF d = 1 THEN JInt(1)
                                                  ELSE JInt(PagesDoc)]]
    /\ run = [d \in Docs |-> NoRunRow]
    /\ seg = [d \in Docs |-> <<>>]
    /\ header = [d \in Docs |-> NoHeaderRow]
    /\ pc = [d \in Docs |-> "uploaded"]
    /\ lt = [d \in Docs |-> NoTasks]
    /\ op = [o \in Ops |-> IdleOp]
    /\ plan_in = NoPlan
    /\ plan_out = NoSegments
    /\ voters = [d \in Docs |-> <<>>]
    /\ document_sections = [d \in Docs |-> <<>>]
    /\ api_key_settings = NoSettings
    /\ answers = {EmptyAnswer}
    /\ fn_in = NoCall
    /\ fn_out = NoCall

SpecHeaderOnly == InitHeaderOnly /\ [][Next]_vars

\* The run of document d has the HEADER segment only.
HeaderOnly(d) == HasRun(d) /\ ListSegments(d) = {}

\* C25: a run of a document without list pages never reaches COMPLETED:
\* once its header call has succeeded and was not a duplicate (the HEADER
\* segment is DONE) the run is PARTIAL, and once it has failed (the HEADER
\* segment is FAILED) the run is FAILED.
C25_HeaderOnlyNeverCompleted ==
    \A d \in Docs : HeaderOnly(d) =>
        /\ run[d].status # COMPLETED
        /\ seg[d][1].status = DONE => run[d].status = PARTIAL
        /\ seg[d][1].status = FAILED => run[d].status = FAILED

\* The one-page document's header call failed, a retry of the HEADER segment
\* succeeded, and its finished run is PARTIAL with the header stored.
C25_Witness ==
    /\ HeaderOnly(1)
    /\ pc[1] = "done"
    /\ op[1].pc = "done"
    /\ seg[1][1].status = DONE
    /\ header[1].present
    /\ run[1].status = PARTIAL


(***************************************************************************)
(* The state machine with two documents whose list calls answer with a row *)
(* and a section start, or with a row and the same section start twice,    *)
(* and one retry request.                                                  *)
(***************************************************************************)
SectionAnswers ==
    { Answer(<<FullRow(JInt(1), "A")>>, <<Position(JInt(1), JInt(1))>>),
      Answer(<<FullRow(JInt(2), "C")>>,
             <<Position(JInt(2), JInt(5)), Position(JInt(2), JInt(5))>>) }

InitSections ==
    /\ document = [d \in Docs |-> [page_count |-> JInt(PagesDoc)]]
    /\ run = [d \in Docs |-> NoRunRow]
    /\ seg = [d \in Docs |-> <<>>]
    /\ header = [d \in Docs |-> NoHeaderRow]
    /\ pc = [d \in Docs |-> "uploaded"]
    /\ lt = [d \in Docs |-> NoTasks]
    /\ op = [o \in Ops |-> IF o = 1 THEN IdleOp ELSE DoneOp]
    /\ plan_in = NoPlan
    /\ plan_out = NoSegments
    /\ voters = [d \in Docs |-> <<>>]
    /\ document_sections = [d \in Docs |-> <<>>]
    /\ api_key_settings = NoSettings
    /\ answers = SectionAnswers
    /\ fn_in = NoCall
    /\ fn_out = NoCall

SpecSections == InitSections /\ [][Next]_vars

\* The initial run of document d ended right after its HEADER segment
\* because the run was SKIPPED by then: its list tasks were never created.
SkippedAfterHeader(d) ==
    /\ pc[d] = "done"
    /\ run[d].status = SKIPPED
    /\ ListSegments(d) # {}
    /\ \A i \in ListSegments(d) : lt[d][i] = "ready"

\* C26: when the HEADER segment of an initial run completes and the
\* duplicate guard marks the run SKIPPED, no external call is ever
\* dispatched for a LIST_CHUNK segment of the run (by the run or by a
\* retry), every LIST_CHUNK segment is SKIPPED, and the document has no
\* Voter row and no section occurrence.
C26_SkippedRunWritesNothing ==
    \A d \in Docs : SkippedAfterHeader(d) =>
        /\ \A i \in ListSegments(d) :
               /\ seg[d][i].status = SKIPPED
               /\ ~RetryInFlight(d, i)
        /\ voters[d] = <<>>
        /\ document_sections[d] = <<>>

\* Document 2's header repeated the triple of document 1, whose run wrote a
\* Voter row and a section occurrence; document 2's run ended SKIPPED.
C26_Witness ==
    /\ SkippedAfterHeader(2)
    /\ seg[2][1].status = SKIPPED
    /\ Len(voters[1]) = 1
    /\ Len(document_sections[1]) = 1
    /\ \A o \in Ops : op[o].pc # "idle"


(***************************************************************************)
(* The duplicate guard on its own: _skip_duplicate_runs applied for        *)
(* document 1 to tables in which document 2 holds the same triple, another *)
(* triple or no header, with runs and segments in every status.            *)
(***************************************************************************)
\* The segments of a run with list pages, in the given statuses.
SegmentsIn(header_status, list_status) ==
    << [NewSegment([segment_type |-> HEADER, page_start |-> 1, page_end |-> 1])
           EXCEPT !.status = header_status],
       [NewSegment([segment_type |-> LIST_CHUNK, page_start |-> 2,
                    page_end |-> PagesDoc])
           EXCEPT !.status = list_status] >>

\* The header row stored for a header JSON.
HeaderRowOf(header_json) ==
    upsert_document_header([header |-> <<NoHeaderRow>>], 1, header_json).header[1]

InitGuard ==
    /\ document = [d \in Docs |-> [page_count |-> JInt(PagesDoc)]]
    /\ run \in [Docs -> {[status |-> status, error_message |-> NoMsg] :
                            status \in RunStatuses}]
    /\ seg \in [Docs -> {SegmentsIn(h, l) : h, l \in SegmentStatuses}]
    /\ \E stored \in {NoHeaderRow,
                      HeaderRowOf(HeaderJson(JText("KA"), JInt(7), JInt(1))),
                      HeaderRowOf(HeaderJson(JText("KA"), JInt(7), JInt(2)))} :
           header = [d \in Docs |-> IF d = 1 THEN NoHeaderRow ELSE stored]
    /\ pc = [d \in Docs |-> "aborted"]
    /\ lt = [d \in Docs |-> NoTasks]
    /\ op = [o \in Ops |-> DoneOp]
    /\ plan_in = NoPlan
    /\ plan_out = NoSegments
    /\ voters = [d \in Docs |-> <<>>]
    /\ document_sections = [d \in Docs |-> <<>>]
    /\ api_key_settings = NoSettings
    /\ answers = {EmptyAnswer}
    /\ \E header_json \in {HeaderJson(JText("KA"), JInt(7), JInt(1)),
                           HeaderJson(JText("KA"), JStr(7), JStr(1))} :
           fn_in = [f |-> "skip_duplicate_runs",
                    header_json |-> header_json,
                    current_document_id |-> 1,
                    error_msg |-> DuplicateMsg(header_json.state,
                                               header_json.ac_number_english,
                                               header_json.part_number)]
    /\ fn_out = NoCall

SkipDuplicateRuns ==
    /\ fn_in.f = "skip_duplicate_runs"
    /\ fn_out = NoCall
    /\ SetDB(skip_duplicate_runs(DB, fn_in.header_json,
                                 fn_in.current_document_id, fn_in.error_msg))
    /\ fn_out' = [f |-> "skip_duplicate_runs", before |-> DB]
    /\ UNCHANGED <<document, pc, lt, op, plan_in, plan_out, answers, fn_in, api_key_settings>>

NextGuard == SkipDuplicateRuns

SpecGuard == InitGuard /\ [][NextGuard]_vars

\* Document d shares the triple the guard fired for: it is the current
\* document, or its stored header holds the triple.
SharesTriple(d) ==
    \/ d = fn_in.current_document_id
    \/ /\ fn_out.before.header[d].present
       /\ fn_out.before.header[d].state = fn_in.header_json.state
       /\ fn_out.before.header[d].assembly_constituency_number_english
              = to_int(fn_in.header_json.ac_number_english)
       /\ fn_out.before.header[d].part_number
              = to_int(fn_in.header_json.part_number)

\* The guard skipped the run of document d and its unfinished segments and
\* left its other segments alone.
RunSkipped(d) ==
    /\ run[d] = [status |-> SKIPPED, error_message |-> fn_in.error_msg]
    /\ \A i \in DOMAIN seg[d] :
           IF fn_out.before.seg[d][i].status \in {PENDING, RUNNING}
           THEN seg[d][i] = [fn_out.before.seg[d][i] EXCEPT
                                !.status = SKIPPED,
                                !.raw_response_json = SkipMarker(fn_in.error_msg)]
           ELSE seg[d][i] = fn_out.before.seg[d][i]

\* C27: when the duplicate guard fires for a triple, every PENDING or
\* RUNNING run of every document sharing the triple, the current document
\* included, becomes SKIPPED with the reason as error message and each of
\* its PENDING or RUNNING segments becomes SKIPPED with the marker
\* {skipped: true, reason}; COMPLETED, PARTIAL and FAILED runs, their
\* segments, and the runs of documents with a different triple are left
\* unchanged.
C27_GuardFrame ==
    Checked("skip_duplicate_runs") =>
        \A d \in Docs :
            IF SharesTriple(d) /\ fn_out.before.run[d].status \in {PENDING, RUNNING}
            THEN RunSkipped(d)
            ELSE run[d] = fn_out.before.run[d] /\ seg[d] = fn_out.before.seg[d]

\* The guard fired for document 1, whose run was RUNNING with a DONE HEADER
\* and a PENDING list segment, while document 2 held the same triple with a
\* PARTIAL run and a RUNNING segment: run 1 was skipped, run 2 was not.
C27_Witness ==
    /\ Checked("skip_duplicate_runs")
    /\ fn_out.before.run[1].status = RUNNING
    /\ fn_out.before.seg[1][1].status = DONE
    /\ fn_out.before.seg[1][2].status = PENDING
    /\ SharesTriple(2)
    /\ fn_out.before.run[2].status = PARTIAL
    /\ fn_out.before.seg[2][2].status = RUNNING
    /\ run[1].status = SKIPPED
    /\ seg[1][2].status = SKIPPED
    /\ seg[1][1].status = DONE
    /\ run[2].status = PARTIAL
    /\ seg[2][2].status = RUNNING


(***************************************************************************)
(* The DocumentHeader table when a HEADER call returns.                    *)
(***************************************************************************)
\* The step in which the external call for the HEADER segment of document d
\* returns, in the initial run or in a retry.
HeaderCallReturned(d) ==
    \/ pc[d] = "header_call" /\ pc'[d] # "header_call"
    \/ \E o \in Ops :
           /\ op[o].pc = "call" /\ op[o].doc = d /\ 1 \in op[o].calls
           /\ op'[o].pc # "call" \/ 1 \notin op'[o].calls

\* The header JSON the step stored for the HEADER segment of document d.
ParsedHeader(d) == seg'[d][1].parsed_header_json

\* The step parsed a header for document d with state, constituency number
\* and part number all non-null.
HeaderParsed(d) ==
    /\ HeaderCallReturned(d)
    /\ ParsedHeader(d).present
    /\ ParsedHeader(d).state.k # "null"
    /\ ParsedHeader(d).ac_number_english.k # "null"
    /\ ParsedHeader(d).part_number.k # "null"

\* Before the step another document's header row held the parsed triple.
HeldByAnother(d) ==
    \E e \in Docs \ {d} :
        /\ header[e].present
        /\ header[e].state = ParsedHeader(d).state
        /\ header[e].assembly_constituency_number_english
               = to_int(ParsedHeader(d).ac_number_english)
        /\ header[e].part_number = to_int(ParsedHeader(d).part_number)

\* The step upserted the header of document d and touched no other row.
HeaderUpserted(d) ==
    header' = [header EXCEPT ![d] =
                  [present |-> TRUE,
                   state |-> ParsedHeader(d).state,
                   part_number |-> to_int(ParsedHeader(d).part_number),
                   assembly_constituency_number_english |->
                       to_int(ParsedHeader(d).ac_number_english)]]

C29_DoneAndSkippedAreFinal ==
    [][\A d \in Docs : \A i \in DOMAIN seg[d] :
           seg[d][i].status \in {DONE, SKIPPED}
               => seg'[d][i].status = seg[d][i].status]_vars


(***************************************************************************)
(* Retry of a FAILED segment.                                              *)
(***************************************************************************)
\* The step in which a retry of segment i of document d starts: the
\* segment is FAILED before and RUNNING after.
RetryStarted(d, i) ==
    /\ seg[d][i].status = FAILED
    /\ seg'[d][i].status = RUNNING

\* The step in which the external call of a retry of segment i of document
\* d returns or raises.
RetryCallEnded(d, i) ==
    \E o \in Ops :
        /\ op[o].pc = "call" /\ op[o].doc = d /\ i \in op[o].calls
        /\ op'[o].pc # "call" \/ i \notin op'[o].calls

\* The status of segment j when the retry that ended in the step recomputed
\* the run status: a bulk request starts its next retry in the same step,
\* after the recomputation.
StatusAtEnd(d, j) ==
    IF RetryStarted(d, j) THEN FAILED ELSE seg'[d][j].status

\* The run status computed from those segment statuses, one of which is
\* DONE.
Recomputed(d) ==
    IF \E j \in DOMAIN seg'[d] : StatusAtEnd(d, j) \in {PENDING, RUNNING}
    THEN RUNNING
    ELSE IF /\ \A j \in DOMAIN seg'[d] : StatusAtEnd(d, j) = DONE
            /\ \E j \in DOMAIN seg'[d] : seg'[d][j].segment_type = LIST_CHUNK
    THEN COMPLETED
    ELSE PARTIAL

\* C30: a retry of a FAILED segment in a run that is not SKIPPED first
\* clears the segment's payloads and marks it RUNNING; when the call
\* succeeds and the segment becomes DONE, the run status is recomputed from
\* the segment statuses and the Voter rows are rebuilt by the merge; when
\* the call fails the segment is FAILED again with the error stored.
C30_RetryRebuilds ==
    [][\A d \in Docs : \A i \in DOMAIN seg[d] :
           run[d].status # SKIPPED =>
               /\ RetryStarted(d, i) =>
                      /\ seg'[d][i].raw_response_json = RawNull
                      /\ seg'[d][i].parsed_header_json = NoHeaderJson
                      /\ seg'[d][i].parsed_list_json = NoListJson
               /\ (RetryCallEnded(d, i) /\ seg'[d][i].status = DONE) =>
                      /\ run'[d].status = Recomputed(d)
                      /\ voters'[d] \in Projections(DBNext, d)
               /\ (RetryCallEnded(d, i) /\ seg'[d][i].status = FAILED) =>
                      seg'[d][i].raw_response_json = RawError]_vars


(***************************************************************************)
(* Retry requests that fail their precondition: retry_segment raises       *)
(* ValueError, which the controller turns into HTTP 400 with the reason as *)
(* detail; retry_failed_segments_for_document answers with a message and   *)
(* the reasons.  The age of a segment at the time of a request is an input *)
(* of the request.                                                         *)
(***************************************************************************)
\* f"Cannot retry segment: {reason}"
CannotRetry(reason) == [k |-> "cannot_retry_segment", reason |-> reason]
NoFailedMsg == "No failed segments found for document"
NoRetryableMsg ==
    "No retryable segments found (all exceed time limit or wrong status)"

\* `raise HTTPException(status_code=400, detail=str(e))`
BadRequest(detail) == [status_code |-> 400, detail |-> detail]

\* BulkRetryResponse of a request that retries nothing.
BulkNothing(message, non_retryable_reasons) ==
    [status_code |-> 200, message |-> message,
     retryable_segments_count |-> 0,
     non_retryable_reasons |-> non_retryable_reasons]

\* A request that was answered without a retry.
RejectedOp(kind, d, i, response) ==
    [pc |-> "rejected", kind |-> kind, doc |-> d, calls |-> {}, queue |-> <<>>,
     segment |-> i, response |-> response]

\* Ages of a segment at the time of a request, in minutes: just updated,
\* and one minute past the limit.
RequestAges == {0, hours(retry_limit_hours) + 1}

\* _can_retry_segment for segment i of document d at the given age.
can_retry_at_age(db, d, i, age) ==
    can_retry_segment_at([status |-> db.seg[d][i].status, updated_at |-> 0], age)

\* A rejection that comes after the reset of the segment.
retry_segment_rejected_after_reset(db, d, i, reason) ==
    [db |-> begin_retry(db, d, i).db, response |-> BadRequest(CannotRetry(reason))]

\* retry_segment when _can_retry_segment says no: ValueError before any
\* write.
retry_segment_rejected(db, d, i, reason) ==
    [db |-> db, response |-> BadRequest(CannotRetry(reason))]

\* POST /segments/{id}/retry for a segment that fails _can_retry_segment.
RetrySegmentRejected(o, d, i, age) ==
    /\ NextRequest(o)
    /\ i \in SegIdx(DB, d)
    /\ ~can_retry_at_age(DB, d, i, age).can_retry
    /\ LET r == retry_segment_rejected(DB, d, i,
                                       can_retry_at_age(DB, d, i, age).reason)
       IN  /\ SetDB(r.db)
           /\ op' = [op EXCEPT ![o] = RejectedOp("single", d, i, r.response)]
    /\ UNCHANGED <<document, pc, lt, plan_in, plan_out, answers, fn_in, fn_out, api_key_settings>>

\* POST /documents/{id}/retry-failed-segments when the document has no
\* FAILED segment, or when every FAILED segment is past the limit.
RetryFailedSegmentsRejected(o, d, age) ==
    /\ NextRequest(o)
    /\ LET failed_segments == {i \in SegIdx(DB, d) : seg[d][i].status = FAILED}
           retryable == {i \in failed_segments :
                             can_retry_at_age(DB, d, i, age).can_retry}
           response ==
               IF failed_segments = {} THEN BulkNothing(NoFailedMsg, {})
               ELSE BulkNothing(NoRetryableMsg,
                        {[segment_id |-> i,
                          reason |-> can_retry_at_age(DB, d, i, age).reason] :
                             i \in failed_segments})
       IN  /\ retryable = {}
           /\ op' = [op EXCEPT ![o] = RejectedOp("bulk", d, 0, response)]
    /\ UNCHANGED <<document, run, seg, header, voters, document_sections, pc,
                   lt, plan_in, plan_out, answers, fn_in, fn_out, api_key_settings>>

NextReject ==
    \/ Next
    \/ \E o \in Ops : \E d \in Docs : \E i \in DOMAIN seg[d] :
           \E age \in RequestAges : RetrySegmentRejected(o, d, i, age)
    \/ \E o \in Ops : \E d \in Docs : \E age \in RequestAges :
           RetryFailedSegmentsRejected(o, d, age)

InitReject ==
    /\ document = [d \in Docs |-> [page_count |-> JInt(PagesDoc)]]
    /\ run = [d \in Docs |-> NoRunRow]
    /\ seg = [d \in Docs |-> <<>>]
    /\ header = [d \in Docs |-> NoHeaderRow]
    /\ pc = [d \in Docs |-> "uploaded"]
    /\ lt = [d \in Docs |-> NoTasks]
    /\ op = [o \in Ops |-> IF o = 1 THEN IdleOp ELSE DoneOp]
    /\ plan_in = NoPlan
    /\ plan_out = NoSegments
    /\ voters = [d \in Docs |-> <<>>]
    /\ document_sections = [d \in Docs |-> <<>>]
    /\ api_key_settings = NoSettings
    /\ answers = SectionAnswers
    /\ fn_in = NoCall
    /\ fn_out = NoCall

SpecReject == InitReject /\ [][NextReject]_vars

\* The step in which request o is answered without a retry.
Rejected(o) == op[o].pc = "idle" /\ op'[o].pc = "rejected"

\* The reason for which segment i of document d is not retryable in the
\* state before the step: its status, else its age.
ReasonFor(d, i) ==
    IF seg[d][i].status = SKIPPED THEN SegmentSkippedMsg
    ELSE IF seg[d][i].status # FAILED THEN SegmentNotFailedMsg
    ELSE RetryLimitMsg

\* The answer of the rejected request o names the reason.
ReasonReceived(o) ==
    LET d == op'[o].doc
        response == op'[o].response
    IN  IF op'[o].kind = "single"
        THEN response = [status_code |-> 400,
                         detail |-> CannotRetry(ReasonFor(d, op'[o].segment))]
        ELSE IF \A i \in DOMAIN seg[d] : seg[d][i].status # FAILED
        THEN response.message = NoFailedMsg
        ELSE /\ response.message = NoRetryableMsg
             /\ response.non_retryable_reasons
                    = {[segment_id |-> i, reason |-> RetryLimitMsg] :
                           i \in {j \in DOMAIN seg[d] : seg[d][j].status = FAILED}}

\* C21: when a retry request fails its precondition (segment not FAILED,
\* segment SKIPPED, or past the 48-hour window) the caller receives the
\* reason and nothing changes: segments, runs, headers, Voter rows and
\* section occurrences are as before, no external call is dispatched, and
\* the background tasks and the other requests are where they were.
C21_RejectedRetryChangesNothing ==
    [][\A o \in Ops : Rejected(o) =>
           /\ ReasonReceived(o)
           /\ UNCHANGED <<run, seg, header, voters, document_sections, pc, lt>>
           /\ \A p \in Ops \ {o} : op'[p] = op[p]]_vars

\* A single retry of a FAILED segment past the 48-hour window was answered
\* with the time-limit reason.
C21_Witness ==
    \E d \in Docs : \E i \in DOMAIN seg[d] :
        /\ op[1].pc = "rejected"
        /\ op[1].kind = "single"
        /\ op[1].doc = d
        /\ op[1].segment = i
        /\ op[1].response.detail = CannotRetry(RetryLimitMsg)
        /\ seg[d][i].status = FAILED


(***************************************************************************)
(* Progress of the initial run: the initial runs of SpecSections, with     *)
(* every external call returning or raising in the end and the event loop  *)
(* running every task that can take a step.                                *)
(***************************************************************************)
TaskStep(d) ==
    \/ StartExtraction(d)
    \/ \E outcome \in HeaderResponses \cup {Exc} : HeaderReturns(d, outcome)
    \/ \E i \in DOMAIN seg[d] : ListDispatch(d, i)
    \/ \E i \in DOMAIN seg[d] : \E outcome \in ListResponses \cup {Exc} :
           ListReturns(d, i, outcome)

\* GatherDone(d) can take a step exactly in these states: its two choices
\* of an order are never empty and its assignments always succeed.
GatherReady(d) ==
    /\ pc[d] = "gather"
    /\ \A i \in DOMAIN lt[d] : lt[d][i] \in {"none", "fin"}

\* The steps of GatherDone(d): no other action leaves "gather".
GatherEnds(d) ==
    /\ GatherReady(d)
    /\ pc'[d] \in {"done", "raised"}

\* Weak fairness of GatherDone(d), written out: WF_vars(A) is
\* []<>~ENABLED <<A>>_vars \/ []<><<A>>_vars.
GatherFair(d) ==
    \/ []<>~GatherReady(d)
    \/ []<><<GatherEnds(d)>>_vars

\* The initial runs alone: no retry request arrives.
NextRun ==
    \/ \E d \in Docs : UploadFails(d)
    \/ \E d \in Docs : TaskStep(d)
    \/ \E d \in Docs : GatherDone(d)

SpecSectionsFair ==
    /\ InitSections
    /\ [][NextRun]_vars
    /\ \A d \in Docs : WF_vars(TaskStep(d))
    /\ \A d \in Docs : GatherFair(d)

\* Every segment of document d is terminal and so is its run.
SegmentsAndRunEnded(d) ==
    /\ \A i \in DOMAIN seg[d] : seg[d][i].status \in {DONE, FAILED, SKIPPED}
    /\ run[d].status \in {COMPLETED, PARTIAL, FAILED, SKIPPED}

\* C22: a failing segment never aborts its siblings or the run: once the
\* initial run of a document has started, and every external call returns
\* or raises, every segment becomes terminal, the run becomes COMPLETED,
\* PARTIAL, FAILED or SKIPPED, and the merge step runs, whatever the
\* segments' successes and failures.  The task reaches "done" only through
\* the merge step.
C22_InitialRunReachesMerge ==
    \A d \in Docs :
        (pc[d] = "header_call") ~> (pc[d] = "done" /\ SegmentsAndRunEnded(d))


(***************************************************************************)
(* The Reconciler behind the merge's concatenation: the rows of two DONE   *)
(* list segments are concatenated in the order in which run.segments       *)
(* delivers the segments, then reconciled.                                 *)
(***************************************************************************)
\* `for seg in list_segments: all_rows.extend(rows)`
RECURSIVE extend_rows(_, _)
extend_rows(segment_rows, ord) ==
    IF ord = <<>> THEN <<>>
    ELSE segment_rows[Head(ord)] \o extend_rows(segment_rows, Tail(ord))

\* The rows of a list cut into the rows of two segments.
SegmentCuts ==
    UNION {{<<SubSeq(rows, 1, k), SubSeq(rows, k + 1, Len(rows))>> :
                k \in 0..Len(rows)} : rows \in RowLists}

InitOrder ==
    /\ MachineStopped
    /\ \E segment_rows \in SegmentCuts :
           fn_in = [f |-> "merge_rows", segment_rows |-> segment_rows]
    /\ fn_out = NoCall

\* The merge reads the segments in the order ord and reconciles the rows.
MergeRows(ord) ==
    /\ fn_in.f = "merge_rows"
    /\ IF fn_out = NoCall
       THEN fn_out' = [f |-> "merge_rows",
                       results |-> ord :> Applied(deduplicate_and_validate_voters(
                                              extend_rows(fn_in.segment_rows, ord)))]
       ELSE /\ ord \notin DOMAIN fn_out.results
            /\ fn_out' = [fn_out EXCEPT
                   !.results = @ @@ (ord :> Applied(deduplicate_and_validate_voters(
                                         extend_rows(fn_in.segment_rows, ord))))]
    /\ UNCHANGED <<machine, fn_in>>

NextOrder == \E ord \in Orders(1..2) : MergeRows(ord)

SpecOrder == InitOrder /\ [][NextOrder]_vars

\* The rows of a Reconciler output that carry a serial number.
SerialRows(result) == SelectSeq(result.value, has_serial)

\* C31: the Reconciler is order-independent: whatever the order in which
\* the rows of the DONE list segments are concatenated, the Reconciler
\* returns the same rows for the rows that carry a serial number.
C31_OrderIndependent ==
    Checked("merge_rows") =>
        \A ord1, ord2 \in DOMAIN fn_out.results :
            /\ fn_out.results[ord1].raised = fn_out.results[ord2].raised
            /\ SerialRows(fn_out.results[ord1]) = SerialRows(fn_out.results[ord2])


\* The input rows without a usable serial number, in input order.
InputRowsWithoutSerial == SelectSeq(InputRows, LAMBDA r : to_int(r.serial_number).k # "int")

\* C32: the Reconciler output is exactly one row per distinct parsed serial
\* number, in strictly ascending serial order, followed by all rows without
\* a valid serial in their original relative order; every output row is one
\* of the input rows and no row without a serial is dropped.
C32_ReconcilerOutputShape ==
    Reconciled =>
        LET n == Cardinality(InputSerials)
        IN  /\ Len(OutputRows) = n + Len(InputRowsWithoutSerial)
            /\ \A k \in 1..n : to_int(OutputRows[k].serial_number).k = "int"
            /\ {to_int(OutputRows[k].serial_number).v : k \in 1..n} = InputSerials
            /\ \A j, k \in 1..n :
                   j < k => to_int(OutputRows[j].serial_number).v
                                < to_int(OutputRows[k].serial_number).v
            /\ SubSeq(OutputRows, n + 1, Len(OutputRows)) = InputRowsWithoutSerial
            /\ \A k \in 1..Len(OutputRows) :
                   \E j \in 1..Len(InputRows) : OutputRows[k] = InputRows[j]

\* Serial 2, a row without a serial number and serial 1 went in, in that
\* order, and came out as serial 1, serial 2, the row without a serial.
C32_Witness ==
    /\ Reconciled
    /\ Len(InputRows) = 3
    /\ to_int(InputRows[1].serial_number) = JInt(2)
    /\ to_int(InputRows[2].serial_number) = JNull
    /\ to_int(InputRows[3].serial_number) = JInt(1)
    /\ OutputRows = <<InputRows[3], InputRows[1], InputRows[2]>>


\* Occurrences j and k of the input share their start serial number, the
\* voter's serial is at or after it and no occurrence starts later at or
\* before the voter's serial.
SharedStart(j, k) ==
    /\ fn_in.voter_serial.k # "null"
    /\ fn_in.sections[j].start_serial_number.k # "null"
    /\ fn_in.sections[j].start_serial_number = fn_in.sections[k].start_serial_number
    /\ fn_in.sections[j].start_serial_number.v <= fn_in.voter_serial.v
    /\ \A c \in Candidates :
           c.start_serial_number.v <= fn_in.sections[j].start_serial_number.v

\* C33: when two occurrences of a document have the identical start serial
\* number, the Section Resolver resolves every serial of their range to the
\* earlier-inserted occurrence (the earlier row of the table), whatever the
\* two section ids are.
C33_EarlierInsertedWins ==
    Checked("find_voter_section") =>
        \A j, k \in 1..Len(fn_in.sections) :
            j < k /\ SharedStart(j, k)
                => fn_out.result = Found(fn_in.sections[j])


\* The section starts, with integer values, that the DONE list segments of
\* document d report.
ReportedOccurrences(d) ==
    UNION {{Section(pos.section_number.v, pos.start_serial_number) :
                pos \in {seg[d][i].raw_response_json.section_start_positions[k] :
                             k \in DOMAIN seg[d][i].raw_response_json.section_start_positions}}
           : i \in {j \in DOMAIN seg[d] : /\ seg[d][j].segment_type = LIST_CHUNK
                                          /\ seg[d][j].status = DONE}}

\* The rows of document d's occurrence table that hold the key `row`.
RowsOf(d, row) == {k \in DOMAIN document_sections[d] : document_sections[d][k] = row}

\* The builder has run for the DONE list segments of document d: the
\* initial run is past it.
BuilderRan(d) == pc[d] \in {"done", "raised"} /\ ListSegments(d) # {}

\* No run of the builder ended in an error.
BuilderNeverRaised ==
    /\ \A d \in Docs : pc[d] # "raised"
    /\ \A o \in Ops : op[o].pc # "raised"

\* C34: after the Section Occurrence Builder has run (in initial runs and in
\* list-segment retries), each (document, section id, start serial) that a
\* DONE list segment reports has exactly one occurrence row and no key has
\* two rows; the builder completes without error, also when one entry is
\* reported twice in one batch.
C34_OneOccurrencePerKey ==
    /\ BuilderNeverRaised
    /\ \A d \in Docs :
           /\ \A k \in DOMAIN document_sections[d] :
                  RowsOf(d, document_sections[d][k]) = {k}
           /\ BuilderRan(d) =>
                  \A row \in ReportedOccurrences(d) : Cardinality(RowsOf(d, row)) = 1


(***************************************************************************)
(* Section-name context of the list calls of an initial run                *)
(***************************************************************************)
\* `header_json.get("section_names")`: every header payload of the model
\* names the sections SectionIds.  _upsert_document_sections, which takes
\* the list, writes a log line and creates no row.
section_names(header_json) ==
    IF header_json.present THEN sorted_serials(SectionIds) ELSE <<>>

\* ExtractionService._get_document_sections: the occurrence rows of the
\* document with a start serial number, by (start_serial_number, section_id).
get_document_sections(db, d) ==
    sorted_sections({db.sections[d][k] :
                         k \in {j \in DOMAIN db.sections[d] :
                                    db.sections[d][j].start_serial_number.k # "null"}})

\* `sections_list if sections_list else None`, None written as <<>>.
list_call_sections(db, d) == get_document_sections(db, d)

\* `if sections:` in _build_segment_instruction: the instruction of the
\* list call carries the SECTION DETECTION part.
section_detection(sections) == sections # <<>>

\* The initial runs alone: between the header and the gather of a document
\* nothing writes its occurrence rows, so the rows at a dispatch are the
\* rows that were read when the list tasks were created.
SpecRun == InitSections /\ [][NextRun]_vars

\* The list call of segment i of document d is dispatched in this step.
ListCallDispatched(d, i) ==
    /\ i \in DOMAIN lt[d]
    /\ lt[d][i] = "ready"
    /\ lt'[d][i] = "call"

\* C35: in an initial run whose HEADER segment is DONE with a non-empty
\* section_names list, every LIST_CHUNK external call is dispatched with
\* that section-name context, a non-empty section list.
C35_ListCallsCarrySections ==
    [][\A d \in Docs : \A i \in DOMAIN seg[d] :
           ( /\ ListCallDispatched(d, i)
             /\ seg[d][1].status = DONE
             /\ section_names(seg[d][1].parsed_header_json) # <<>> )
               => section_detection(list_call_sections(DB, d))]_vars


\* The initial run dispatches the external call of segment i of document d
\* in this step: the HEADER call when the task starts, a list call when its
\* task enters the semaphore.
InitialDispatch(d, i) ==
    \/ /\ i = 1
       /\ pc[d] = "uploaded"
       /\ pc'[d] = "header_call"
    \/ ListCallDispatched(d, i)

\* Retry request o dispatches the external call of segment i of document d
\* in this step.
RetryDispatch(o, d, i) ==
    /\ op'[o].pc = "call"
    /\ op'[o].doc = d
    /\ i \in op'[o].calls
    /\ ~(op[o].pc = "call" /\ i \in op[o].calls)

\* Request o is made in this step, by a call of a retry entry point.
RequestMade(o) == op[o].pc = "idle" /\ op'[o].pc # "idle"

\* The segments request o still has to retry.
Queued(o) == {op[o].queue[k] : k \in DOMAIN op[o].queue}

\* C36: nothing is retried automatically: the initial run dispatches each
\* segment at most once (only a segment that is new or PENDING, and no
\* segment becomes PENDING again), and any other dispatch is the effect of
\* an explicit retry request for a segment that was FAILED and passed the
\* retry check when the request was made.
C36_NoAutomaticRetry ==
    [][/\ \A d \in Docs : \A i \in DOMAIN seg'[d] :
              /\ InitialDispatch(d, i) =>
                     (i \in DOMAIN seg[d] => seg[d][i].status = PENDING)
              /\ (i \in DOMAIN seg[d] /\ seg[d][i].status # PENDING)
                     => seg'[d][i].status # PENDING
              /\ \A o \in Ops :
                     RetryDispatch(o, d, i) =>
                         \/ /\ RequestMade(o)
                            /\ seg[d][i].status = FAILED
                         \/ /\ op[o].pc = "call"
                            /\ op[o].kind = "bulk"
                            /\ op[o].doc = d
                            /\ i \in Queued(o)
       /\ \A o \in Ops :
              RequestMade(o) /\ op'[o].pc = "call" =>
                  \A i \in Queued(o)' : seg[op'[o].doc][i].status = FAILED]_vars

\* A list segment that the initial run dispatched, and that FAILED, has the
\* external call of an explicit retry in flight.
C36_Witness ==
    \E d \in Docs : \E i \in DOMAIN seg[d] :
        /\ i \in DOMAIN lt[d]
        /\ lt[d][i] = "fin"
        /\ seg[d][i].status = RUNNING
        /\ \E o \in Ops : op[o].pc = "call" /\ op[o].doc = d /\ i \in op[o].calls


(***************************************************************************)
(* The state machine with a document of two list chunks and a second       *)
(* document with the same header: the second header can flip the first     *)
(* run to SKIPPED when one list segment is DONE with a row and the other    *)
(* is still in flight, so that the merge meets a SKIPPED run with rows.    *)
(***************************************************************************)
InitSkipMerge ==
    /\ document = [d \in Docs |-> [page_count |->
                       IF d = 1 THEN JInt(PagesMerge) ELSE JInt(PagesDoc)]]
    /\ run = [d \in Docs |-> NoRunRow]
    /\ seg = [d \in Docs |-> <<>>]
    /\ header = [d \in Docs |-> NoHeaderRow]
    /\ pc = [d \in Docs |-> "uploaded"]
    /\ lt = [d \in Docs |-> NoTasks]
    /\ op = [o \in Ops |-> IF o = 1 THEN IdleOp ELSE DoneOp]
    /\ plan_in = NoPlan
    /\ plan_out = NoSegments
    /\ voters = [d \in Docs |-> <<>>]
    /\ document_sections = [d \in Docs |-> <<>>]
    /\ api_key_settings = NoSettings
    /\ answers = {Answer(<<FullRow(JInt(1), "A")>>, <<>>)}
    /\ fn_in = NoCall
    /\ fn_out = NoCall

SpecSkipMerge == InitSkipMerge /\ [][Next]_vars

\* The initial run of document d comes to its merge step in this step, and
\* its run is SKIPPED.
MergeOfSkippedRun(d) ==
    /\ pc[d] = "gather"
    /\ pc'[d] = "done"
    /\ run[d].status = SKIPPED

\* A list segment of document d is DONE and holds rows.
HoldsRows(d) ==
    \E i \in DOMAIN seg[d] :
        /\ seg[d][i].segment_type = LIST_CHUNK
        /\ seg[d][i].status = DONE
        /\ seg[d][i].parsed_list_json.present
        /\ seg[d][i].parsed_list_json.rows # <<>>

\* C37: the merge step skips entirely when the run is SKIPPED at merge
\* time: the document's Voter rows, the header, the section occurrences,
\* the run and every segment stay as they were.
C37_MergeSkipsSkippedRun ==
    [][\A d \in Docs :
           MergeOfSkippedRun(d) =>
               /\ voters' = voters
               /\ header' = header
               /\ document_sections' = document_sections
               /\ run' = run
               /\ seg' = seg]_vars

\* The merge step has run for a SKIPPED run one of whose list segments is
\* DONE with a row, and the document has no Voter row.
C37_Witness ==
    \E d \in Docs :
        /\ pc[d] = "done"
        /\ run[d].status = SKIPPED
        /\ HoldsRows(d)
        /\ voters[d] = <<>>


\* The retry requests that have the external call of segment i of document
\* d in flight.
RetryCalls(d, i) ==
    {o \in Ops : op[o].pc = "call" /\ op[o].doc = d /\ i \in op[o].calls}

\* The external call of the initial run for segment i of document d is in
\* flight.
InitialCall(d, i) ==
    \/ i = 1 /\ pc[d] = "header_call"
    \/ i \in DOMAIN lt[d] /\ lt[d][i] = "call"

\* C38: every retry dispatch acts on a segment that is FAILED when it is
\* reset to RUNNING, and no segment has two external calls in flight at
\* once, also when a bulk document retry overlaps with a single-segment
\* retry of one of the same segments.
C38_RetryOnlyFailedSegments ==
    [][\A d \in Docs : \A i \in DOMAIN seg[d] :
           /\ \A o \in Ops : RetryDispatch(o, d, i) => seg[d][i].status = FAILED
           /\ Cardinality(RetryCalls(d, i))' + Bit(InitialCall(d, i))' <= 1]_vars


\* C39: whenever a run is COMPLETED, a DocumentHeader row exists for its
\* document: a HEADER segment counts as DONE for the COMPLETED rule only
\* when its response carried a header payload that was upserted.
C39_CompletedRunHasHeader ==
    \A d \in Docs : run[d].status = COMPLETED => header[d] # NoHeaderRow


(***************************************************************************)
(* API-key settings: SettingsService and the settings endpoints            *)
(***************************************************************************)
\* An Optional[bool] of a request body.
NoBool == [k |-> "null"]
Bool(b) == [k |-> "bool", v |-> b]
OptionalBools == {NoBool, Bool(TRUE), Bool(FALSE)}

\* Plain-text keys a caller sends, and no key (update only).
NoKey == [k |-> "null"]
Key(s) == [k |-> "text", s |-> s]
ApiKeys == {Key("key-1"), Key("key-2")}

\* encrypt_api_key: the token decrypts to the key it was made from.
encrypt_api_key(api_key) == [k |-> "fernet", of |-> api_key.s]

\* A row of api_key_settings.
Setting(encrypted_api_key, is_active) ==
    [present |-> TRUE, encrypted_api_key |-> encrypted_api_key,
     is_active |-> is_active]

\* What a handler leaves behind: the table and its HTTP status.
Outcome(table, status_code) == [table |-> table, status_code |-> status_code]

\* SettingsService._deactivate_other_providers
deactivate_other_providers(table, active_provider) ==
    [provider \in Providers |->
        IF provider # active_provider /\ table[provider].present
        THEN [table[provider] EXCEPT !.is_active = FALSE]
        ELSE table[provider]]

\* SettingsService.create_or_update_api_key; `encrypts` is whether
\* encrypt_api_key returns (it raises when the encryption key cannot be
\* had).  The result is the table, or Raised for the ValueError.
create_or_update_api_key(table, provider, api_key, is_active, encrypts) ==
    IF ~encrypts THEN Raised
    ELSE IF table[provider].present
    THEN Returned([table EXCEPT ![provider] =
             [@ EXCEPT !.encrypted_api_key = encrypt_api_key(api_key),
                       !.is_active = IF is_active = NoBool THEN @
                                     ELSE is_active.v]])
    ELSE LET new_setting == Setting(encrypt_api_key(api_key),
                                    IF is_active = NoBool THEN FALSE
                                    ELSE is_active.v)
             added == [table EXCEPT ![provider] = new_setting]
         IN  Returned(IF new_setting.is_active
                      THEN deactivate_other_providers(added, provider)
                      ELSE added)

\* SettingsService.set_active_provider
set_active_provider(table, provider) ==
    IF ~table[provider].present THEN Raised
    ELSE Returned([deactivate_other_providers(table, provider)
                      EXCEPT ![provider].is_active = TRUE])

\* SettingsService.delete_api_key; Raised stands for the False it returns when
\* the provider has no row.
delete_api_key(table, provider) ==
    IF ~table[provider].present THEN Raised
    ELSE Returned([table EXCEPT ![provider] = NoSetting])

\* A service result as the controllers answer it: 200, or the status of the
\* HTTPException with the table as it was.
Answered(table, result, error_status) ==
    IF result.raised THEN Outcome(table, error_status)
    ELSE Outcome(result.value, 200)

\* SettingsController.update_api_key
update_api_key(table, provider, api_key, is_active, encrypts) ==
    IF ~table[provider].present THEN Outcome(table, 404)
    ELSE IF api_key # NoKey
    THEN Answered(table,
                  create_or_update_api_key(
                      table, provider, api_key,
                      IF is_active # NoBool THEN is_active
                      ELSE Bool(table[provider].is_active), encrypts),
                  400)
    ELSE IF is_active # NoBool
    THEN IF is_active.v
         THEN Answered(table, set_active_provider(table, provider), 400)
         ELSE Outcome([table EXCEPT ![provider].is_active = FALSE], 200)
    ELSE Outcome(table, 200)

\* A request is answered: the table is as the handler left it, the request
\* and its status are kept.
Handle(request, outcome) ==
    /\ api_key_settings' = outcome.table
    /\ fn_in' = request
    /\ fn_out' = [f |-> request.f, status_code |-> outcome.status_code]
    /\ UNCHANGED extraction

\* POST /settings/api-keys
CreateOrUpdateApiKey(provider, api_key, is_active, encrypts) ==
    Handle([f |-> "create_or_update_api_key", provider |-> provider,
            api_key |-> api_key, is_active |-> is_active],
           Answered(api_key_settings,
                    create_or_update_api_key(api_key_settings, provider,
                                             api_key, is_active, encrypts),
                    400))

\* PUT /settings/api-keys/{provider}
UpdateApiKey(provider, api_key, is_active, encrypts) ==
    Handle([f |-> "update_api_key", provider |-> provider,
            api_key |-> api_key, is_active |-> is_active],
           update_api_key(api_key_settings, provider, api_key, is_active,
                          encrypts))

\* POST /settings/api-keys/{provider}/activate
ActivateProvider(provider) ==
    Handle([f |-> "set_active_provider", provider |-> provider],
           Answered(api_key_settings,
                    set_active_provider(api_key_settings, provider), 404))

\* DELETE /settings/api-keys/{provider}
DeleteApiKey(provider) ==
    Handle([f |-> "delete_api_key", provider |-> provider],
           Answered(api_key_settings,
                    delete_api_key(api_key_settings, provider), 404))

InitSettings ==
    /\ MachineStopped
    /\ fn_in = NoCall
    /\ fn_out = NoCall

NextSettings ==
    \/ \E provider \in Providers, api_key \in ApiKeys,
          is_active \in OptionalBools, encrypts \in BOOLEAN :
           CreateOrUpdateApiKey(provider, api_key, is_active, encrypts)
    \/ \E provider \in Providers, api_key \in ApiKeys \cup {NoKey},
          is_active \in OptionalBools, encrypts \in BOOLEAN :
           UpdateApiKey(provider, api_key, is_active, encrypts)
    \/ \E provider \in Providers : ActivateProvider(provider)
    \/ \E provider \in Providers : DeleteApiKey(provider)

SpecSettings == InitSettings /\ [][NextSettings]_vars

\* The providers whose row is active.
ActiveProviders ==
    {provider \in Providers : /\ api_key_settings[provider].present
                              /\ api_key_settings[provider].is_active}

\* C40: after any sequence of create_or_update_api_key, update_api_key,
\* set_active_provider and delete_api_key calls at most one API-key provider
\* is active.
C40_AtMostOneActiveProvider == Cardinality(ActiveProviders) <= 1

====
